---- MODULE Spec2Model ----
(***************************************************************************)
(* A model of log_calls: the settings mapping of deco_settings.py          *)
(* (DecoSettingsMapping: tagged direct/indirect values, resolution) and    *)
(* the wrapper of log_calls.py (_deco_base.__call__.f_log_calls_wrapper_:  *)
(* counters, logging-state stacks, call history).                          *)
(***************************************************************************)
EXTENDS Integers, Sequences, FiniteSets, TLC

VARIABLES
    tagged,     \* DecoSettingsMapping._tagged_values_dict (OrderedDict): Seq of [k, ind, val]
    op,         \* the mapping operation under way: its arguments and its outcome
    num_calls_total,        \* self._num_calls_total
    num_calls_logged,       \* self._num_calls_logged
    elapsed_secs_logged,    \* self._elapsed_secs_logged
    CPU_secs_logged,        \* self._CPU_secs_logged
    max_history,            \* self.max_history
    call_history,           \* self._call_history: a deque, [maxlen, items]; maxlen 0 is None
    logging_fn_stack,       \* self._logging_fn
    indent_len_stack,       \* self._indent_len
    output_fname_stack,     \* self._output_fname
    frames,     \* the activations of f_log_calls_wrapper_ that are inside f, outermost first
    returned,   \* the last return of the wrapper to its caller
    ncalls,     \* how many times the wrapper was invoked
    since,      \* what happened since construction or the last clear_history
    threads,    \* the threads that call the decorated function: where each one is
    owner_stack \* which thread pushed each entry of the logging-state stacks

\* the decorator's own state
deco == <<num_calls_total, num_calls_logged, elapsed_secs_logged, CPU_secs_logged,
          max_history, call_history, logging_fn_stack, indent_len_stack,
          output_fname_stack>>

\* the calls of the decorated function
calls == <<frames, returned, ncalls, since>>

\* the concurrent callers of the decorated function
conc == <<threads, owner_stack>>

vars == <<tagged, op, deco, calls, conc>>

(***************************************************************************)
(* Python values.  A value is [t, n, s]: t the type name, n the number of  *)
(* an int or bool (True = 1, False = 0), s the characters of a str.        *)
(***************************************************************************)
IntV(i) == [t |-> "int", n |-> i, s |-> <<>>]

BoolV(b) == [t |-> "bool", n |-> IF b THEN 1 ELSE 0, s |-> <<>>]

StrV(chars) == [t |-> "str", n |-> 0, s |-> chars]

NoneV == [t |-> "NoneType", n |-> 0, s |-> <<>>]

\* Python truth value: None, 0, False and '' are falsy
Truthy(v) ==
    CASE v.t = "str" -> v.s # <<>>
      [] v.t \in {"int", "bool"} -> v.n # 0
      [] OTHER -> FALSE

\* isinstance(v, final_type); bool is a subclass of int
IsInstance(v, final_type) ==
    CASE final_type = "int" -> v.t \in {"int", "bool"}
      [] final_type = "bool" -> v.t = "bool"
      [] final_type = "str" -> v.t = "str"
      [] final_type = "TextIOBase" -> v.t = "TextIOBase"
      [] final_type = "Logger|str" -> v.t \in {"Logger", "str"}
      [] OTHER -> FALSE

KEYWORD_MARKER == "="

\* logging.DEBUG
DEBUG == 10

(***************************************************************************)
(* The settings registered for class log_calls (_setting_info_list).       *)
(***************************************************************************)
DecoSetting(name, final_type, default, allow_falsy, allow_indirect, mutable) ==
    [name |-> name, final_type |-> final_type, default |-> default,
     allow_falsy |-> allow_falsy, allow_indirect |-> allow_indirect,
     mutable |-> mutable]

setting_info_list ==
    << DecoSetting("enabled", "int", BoolV(FALSE), TRUE, TRUE, TRUE),
       DecoSetting("args_sep", "str", StrV(<<",", " ">>), FALSE, TRUE, TRUE),
       DecoSetting("log_args", "bool", BoolV(TRUE), TRUE, TRUE, TRUE),
       DecoSetting("log_retval", "bool", BoolV(FALSE), TRUE, TRUE, TRUE),
       DecoSetting("log_elapsed", "bool", BoolV(FALSE), TRUE, TRUE, TRUE),
       DecoSetting("log_exit", "bool", BoolV(TRUE), TRUE, TRUE, TRUE),
       DecoSetting("indent", "bool", BoolV(FALSE), TRUE, TRUE, TRUE),
       DecoSetting("log_call_numbers", "bool", BoolV(FALSE), TRUE, TRUE, TRUE),
       DecoSetting("prefix", "str", StrV(<<>>), TRUE, FALSE, FALSE),
       DecoSetting("file", "TextIOBase", NoneV, TRUE, TRUE, TRUE),
       DecoSetting("logger", "Logger|str", NoneV, TRUE, TRUE, TRUE),
       DecoSetting("loglevel", "int", IntV(DEBUG), FALSE, TRUE, TRUE),
       DecoSetting("record_history", "bool", BoolV(FALSE), TRUE, TRUE, TRUE),
       DecoSetting("max_history", "int", IntV(0), TRUE, FALSE, FALSE) >>

\* key in self._deco_class_settings_dict
Registered(key) == \E i \in 1..Len(setting_info_list) : setting_info_list[i].name = key

\* self._deco_class_settings_dict[key]
Info(key) ==
    setting_info_list[CHOOSE i \in 1..Len(setting_info_list) : setting_info_list[i].name = key]

(***************************************************************************)
(* Ordered dictionaries: sequences of entries with a key field k, in       *)
(* insertion order; writing an existing key keeps its position.            *)
(***************************************************************************)
Has(d, key) == \E i \in 1..Len(d) : d[i].k = key

IndexOf(d, key) == CHOOSE i \in 1..Len(d) : d[i].k = key

Entry(d, key) == d[IndexOf(d, key)]

\* a dictionary in which a key written again moves to the end
StoreMovesToEnd(d, e) ==
    Append(SelectSeq(d, LAMBDA x : x.k # e.k), e)

Store(d, e) ==
    IF Has(d, e.k) THEN [d EXCEPT ![IndexOf(d, e.k)] = e] ELSE Append(d, e)

Keys(d) == [i \in 1..Len(d) |-> d[i].k]

\* value[-1] and value[:-1] of a nonempty str
LastChar(chars) == chars[Len(chars)]

DropLast(chars) == SubSeq(chars, 1, Len(chars) - 1)

(***************************************************************************)
(* DecoSettingsMapping.__setitem__                                         *)
(***************************************************************************)
\* a write-once test that honours the flag the wrong way round
WriteOnceFlagInverted(tv, key, force_mutable) ==
    ~Info(key).mutable /\ force_mutable /\ Has(tv, key)

\* a write-once test that no flag overrides
WriteOnceIgnoresForce(tv, key, force_mutable) ==
    ~Info(key).mutable /\ Has(tv, key)

\* the write-once test: not info.mutable and not _force_mutable and key in self._tagged_values_dict
WriteOnce(tv, key, force_mutable) ==
    ~Info(key).mutable /\ ~force_mutable /\ Has(tv, key)

\* the local the code names allow_falsy: it is assigned info.default
LocalAllowFalsy(info) == Truthy(info.default)

\* a classification that asks for the marker whatever the final type is
ClassifyByMarkerOnly(info, value) ==
    IF value.t # "str" \/ ~Truthy(value)
    THEN IF (~Truthy(value) /\ ~LocalAllowFalsy(info)) \/ ~IsInstance(value, info.final_type)
         THEN [ind |-> FALSE, val |-> info.default]
         ELSE [ind |-> FALSE, val |-> value]
    ELSE IF LastChar(value.s) = KEYWORD_MARKER
         THEN [ind |-> TRUE, val |-> StrV(DropLast(value.s))]
         ELSE [ind |-> FALSE, val |-> value]

\* the (indirect, value) pair stored for a setting that allows indirection
Classify(info, value) ==
    IF value.t # "str" \/ ~Truthy(value)
    THEN \* not a str, or '': direct; as-is if valid, else the default
         IF (~Truthy(value) /\ ~LocalAllowFalsy(info)) \/ ~IsInstance(value, info.final_type)
         THEN [ind |-> FALSE, val |-> info.default]
         ELSE [ind |-> FALSE, val |-> value]
    ELSE IF info.final_type # "str"
         THEN \* names a keyword of f; one trailing marker is removed
              IF LastChar(value.s) = KEYWORD_MARKER
              THEN [ind |-> TRUE, val |-> StrV(DropLast(value.s))]
              ELSE [ind |-> TRUE, val |-> value]
         ELSE \* final_type == str: indirect iff the last char is the marker
              IF LastChar(value.s) = KEYWORD_MARKER
              THEN [ind |-> TRUE, val |-> StrV(DropLast(value.s))]
              ELSE [ind |-> FALSE, val |-> value]

\* a __setitem__ that classifies the value of every setting, also of one
\* whose descriptor disallows indirection
SetRegisteredClassifiesAll(tv, key, value, force_mutable) ==
    IF WriteOnce(tv, key, force_mutable)
    THEN [tagged |-> tv, raised |-> "ValueError"]
    ELSE LET c == Classify(Info(key), value)
         IN  [tagged |-> Store(tv, [k |-> key, ind |-> c.ind, val |-> c.val]),
              raised |-> "none"]

\* __setitem__ once the key is known to be registered
SetRegistered(tv, key, value, force_mutable) ==
    IF WriteOnce(tv, key, force_mutable)
    THEN [tagged |-> tv, raised |-> "ValueError"]
    ELSE IF ~Info(key).allow_indirect
    THEN [tagged |-> Store(tv, [k |-> key, ind |-> FALSE, val |-> value]),
          raised |-> "none"]
    ELSE LET c == Classify(Info(key), value)
         IN  [tagged |-> Store(tv, [k |-> key, ind |-> c.ind, val |-> c.val]),
              raised |-> "none"]

\* the outcome of self.__setitem__(key, value, _force_mutable=force_mutable)
\* on the dictionary tv: the dictionary afterwards and the exception raised;
\* first, a __setitem__ whose force flag also lets an unregistered key in
SetItemForceAny(tv, key, value, force_mutable) ==
    IF ~Registered(key)
    THEN IF force_mutable
         THEN [tagged |-> Store(tv, [k |-> key, ind |-> FALSE, val |-> value]),
               raised |-> "none"]
         ELSE [tagged |-> tv, raised |-> "KeyError"]
    ELSE SetRegistered(tv, key, value, force_mutable)

SetItem(tv, key, value, force_mutable) ==
    IF ~Registered(key)
    THEN [tagged |-> tv, raised |-> "KeyError"]
    ELSE SetRegistered(tv, key, value, force_mutable)

(***************************************************************************)
(* DecoSettingsMapping.__init__: the registered keys present in            *)
(* values_dict are set in registry order.                                  *)
(***************************************************************************)
RECURSIVE InitItems(_, _, _)
InitItems(tv, values_dict, i) ==
    IF i > Len(setting_info_list) THEN tv
    ELSE LET key == setting_info_list[i].name
         IN  IF Has(values_dict, key)
             THEN InitItems(SetItem(tv, key, Entry(values_dict, key).v, FALSE).tagged,
                            values_dict, i + 1)
             ELSE InitItems(tv, values_dict, i + 1)

NewMapping(values_dict) == InitItems(<<>>, values_dict, 1)

(***************************************************************************)
(* DecoSettingsMapping.__getitem__                                         *)
(***************************************************************************)
\* a __getitem__ that forgets to put the marker back
GetItemNoMarker(tv, key) ==
    IF ~Has(tv, key)
    THEN [result |-> NoneV, raised |-> "KeyError"]
    ELSE [result |-> Entry(tv, key).val, raised |-> "none"]

GetItem(tv, key) ==
    IF ~Has(tv, key)
    THEN [result |-> NoneV, raised |-> "KeyError"]
    ELSE LET e == Entry(tv, key)
         IN  [result |-> IF e.ind THEN StrV(Append(e.val.s, "=")) ELSE e.val,
              raised |-> "none"]

(***************************************************************************)
(* DecoSettingsMapping.get_final_value                                     *)
(***************************************************************************)
\* the first of dicts that contains name, 0 if none does
RECURSIVE FirstWith(_, _, _)
FirstWith(dicts, name, i) ==
    IF i > Len(dicts) THEN 0
    ELSE IF Has(dicts[i], name) THEN i
    ELSE FirstWith(dicts, name, i + 1)

\* helpers.is_keyword_param(fparams.get(name)): name is a parameter of f
\* that has a default value
is_keyword_param(fparams, name) ==
    Has(fparams, name) /\ Entry(fparams, name).has_default

\* a lookup that lets the declared default of f win over the mappings
DesignatedDefaultFirst(di_val, dicts, fparams, default) ==
    LET i == FirstWith(dicts, di_val, 1)
    IN  IF fparams # <<>> /\ is_keyword_param(fparams, di_val)
        THEN Entry(fparams, di_val).default
        ELSE IF i > 0 THEN Entry(dicts[i], di_val).v
        ELSE default

\* the value an indirect entry designates, before the fixup
Designated(di_val, dicts, fparams, default) ==
    LET i == FirstWith(dicts, di_val, 1)
    IN  IF i > 0 THEN Entry(dicts[i], di_val).v
        ELSE IF fparams # <<>> /\ is_keyword_param(fparams, di_val)
        THEN Entry(fparams, di_val).default
        ELSE default

\* a fixup that tests the type only
FixupTypeOnly(val, setting_info) ==
    IF ~IsInstance(val, setting_info.final_type) THEN setting_info.default ELSE val

\* a fixup that also replaces a negative number by the default
FixupNoNegative(val, setting_info) ==
    IF (~Truthy(val) /\ ~setting_info.allow_falsy)
       \/ ~IsInstance(val, setting_info.final_type)
       \/ val.n < 0
    THEN setting_info.default
    ELSE val

\* fixup: "loggers" that aren't loggers, "strs" that aren't strs, etc
Fixup(val, setting_info) ==
    IF (~Truthy(val) /\ ~setting_info.allow_falsy)
       \/ ~IsInstance(val, setting_info.final_type)
    THEN setting_info.default
    ELSE val

GetFinalValue(tv, name, dicts, fparams) ==
    IF ~Has(tv, name)
    THEN [result |-> NoneV, raised |-> "KeyError"]
    ELSE LET e == Entry(tv, name)
         IN  IF ~e.ind
             THEN [result |-> e.val, raised |-> "none"]
             ELSE [result |-> Fixup(Designated(e.val.s, dicts, fparams,
                                               Info(name).default),
                                    Info(name)),
                   raised |-> "none"]

(***************************************************************************)
(* DecoSettingsMapping.update                                              *)
(***************************************************************************)
\* an update that skips nothing
UpdateSkipsNothing(k) == FALSE

\* skip immutable settings
UpdateSkips(k) == Registered(k) /\ ~Info(k).mutable

\* the items of dicts + (d_settings,), in the order the loops visit them
RECURSIVE Flatten(_)
Flatten(dicts) ==
    IF dicts = <<>> THEN <<>> ELSE Head(dicts) \o Flatten(Tail(dicts))

\* an update that writes nothing when one of its keys is not registered
RECURSIVE UpdateItemsAllOrNothing(_, _)
UpdateItemsAllOrNothing(tv, items) ==
    IF items = <<>> THEN [tagged |-> tv, raised |-> "none"]
    ELSE IF \E i \in 1..Len(items) : ~Registered(items[i].k)
    THEN [tagged |-> tv, raised |-> "KeyError"]
    ELSE LET it == Head(items)
         IN  IF UpdateSkips(it.k) THEN UpdateItemsAllOrNothing(tv, Tail(items))
             ELSE LET r == SetItem(tv, it.k, it.v, FALSE)
                  IN  IF r.raised # "none" THEN r
                      ELSE UpdateItemsAllOrNothing(r.tagged, Tail(items))

RECURSIVE UpdateItems(_, _)
UpdateItems(tv, items) ==
    IF items = <<>> THEN [tagged |-> tv, raised |-> "none"]
    ELSE LET it == Head(items)
         IN  IF UpdateSkips(it.k) THEN UpdateItems(tv, Tail(items))
             ELSE LET r == SetItem(tv, it.k, it.v, FALSE)
                  IN  IF r.raised # "none" THEN r
                      ELSE UpdateItems(r.tagged, Tail(items))

Update(tv, dicts) == UpdateItems(tv, Flatten(dicts))

(***************************************************************************)
(* The mapping as a state machine: a mapping is constructed, then set,     *)
(* read, resolved and updated.  op records the last operation.             *)
(***************************************************************************)
\* number of mappings given to one get_final_value or update call
MaxDicts == 2

\* the name a setting refers to, and the names and values of the inputs
RefName == <<"a">>

SetKeys == {"args_sep", "loglevel", "prefix", "nosuch"}

SetValues ==
    { NoneV, IntV(0), IntV(1), StrV(<<>>), StrV(<<"a">>), StrV(<<"a", "=">>) }

\* keyword arguments of a call of f: RefName is absent or passed
SourceValues == { StrV(<<";">>), StrV(<<>>), IntV(5) }

SourceDicts == { <<>> } \cup { << [k |-> RefName, v |-> v] >> : v \in SourceValues }

\* inspect.signature(f).parameters: no parameters (or None), RefName
\* declared without a default, RefName declared with a default
FParams ==
    { <<>>,
      << [k |-> RefName, has_default |-> FALSE, default |-> NoneV] >>,
      << [k |-> RefName, has_default |-> TRUE, default |-> StrV(<<"|">>)] >> }

\* sequences over S of length lo..hi
SeqsOf(S, lo, hi) == UNION { [1..n -> S] : n \in lo..hi }

\* the dictionaries given to update: items over an immutable and a mutable
\* key, each dictionary a choice of items with distinct keys
UpdateItemsIn ==
    << [k |-> "prefix", v |-> StrV(<<"b">>)],
       [k |-> "args_sep", v |-> StrV(<<"a", "=">>)],
       [k |-> "args_sep", v |-> IntV(0)] >>

UpdateDicts ==
    { <<>> }
    \cup { << UpdateItemsIn[i] >> : i \in 1..Len(UpdateItemsIn) }
    \cup { << UpdateItemsIn[i], UpdateItemsIn[j] >> :
              <<i, j>> \in { p \in (1..Len(UpdateItemsIn)) \X (1..Len(UpdateItemsIn)) :
                               p[1] < p[2] /\ UpdateItemsIn[p[1]].k # UpdateItemsIn[p[2]].k } }

\* the keyword values a mapping is constructed from
InitDicts ==
    { <<>>,
      << [k |-> "prefix", v |-> StrV(<<"a">>)] >>,
      << [k |-> "prefix", v |-> StrV(<<"a">>)], [k |-> "args_sep", v |-> StrV(<<"a", "=">>)] >>,
      << [k |-> "prefix", v |-> StrV(<<"a">>)], [k |-> "nosuch", v |-> IntV(1)] >> }

\* no operation is under way: the caller has taken the last outcome
NoOp ==
    [name |-> "idle", key |-> "", value |-> NoneV, force |-> FALSE,
     dicts |-> <<>>, fparams |-> <<>>, raised |-> "none", result |-> NoneV]

\* how many threads call the decorated function
NThreads == 2

Threads == 1..NThreads

\* a thread that has not called f yet: where it is in the wrapper (pc), the
\* values it has read and not yet written back, the locals of its activation,
\* and what an observer notes down: whose entries its messages were written
\* with and whose entries its exit popped (0: none yet)
NotStarted ==
    [pc |-> "start", total |-> 0, logged |-> 0, elapsed_secs |-> 0, CPU_secs |-> 0,
     active_call_number |-> 0, logging_fn |-> "", indent_len |-> 0,
     output_fname |-> "", used |-> <<>>,
     popped |-> [logging_fn |-> 0, indent_len |-> 0, output_fname |-> 0]]

\* nobody has pushed anything on the three stacks
NoOwners == [logging_fn |-> <<>>, indent_len |-> <<>>, output_fname |-> <<>>]

\* a mapping on its own: no decorated function is called.  __init__ has no
\* raise of its own and sets registered keys on an empty dictionary, so
\* construction ends without an exception
InitSettings ==
    /\ \E values_dict \in InitDicts :
          /\ tagged = NewMapping(values_dict)
          /\ op = [NoOp EXCEPT !.name = "init", !.dicts = <<values_dict>>,
                               !.raised = "none"]
    /\ num_calls_total = 0
    /\ num_calls_logged = 0
    /\ elapsed_secs_logged = 0
    /\ CPU_secs_logged = 0
    /\ max_history = 0
    /\ call_history = [maxlen |-> 0, items |-> <<>>]
    /\ logging_fn_stack = <<>>
    /\ indent_len_stack = <<>>
    /\ output_fname_stack = <<>>
    /\ frames = <<>>
    /\ returned = [call |-> 0]
    /\ ncalls = 0
    /\ since = [nonneg |-> 0]
    /\ threads = [t \in Threads |-> NotStarted]
    /\ owner_stack = NoOwners

DoSetItem ==
    /\ op.name = "idle"
    /\ \E key \in SetKeys, value \in SetValues, force \in BOOLEAN :
        LET r == SetItem(tagged, key, value, force)
        IN  /\ tagged' = r.tagged
            /\ op' = [NoOp EXCEPT !.name = "set", !.key = key, !.value = value,
                                  !.force = force, !.raised = r.raised]
    /\ UNCHANGED <<deco, calls, conc>>

DoGetItem ==
    /\ op.name = "idle"
    /\ \E key \in SetKeys :
        LET r == GetItem(tagged, key)
        IN  /\ op' = [NoOp EXCEPT !.name = "get", !.key = key,
                                  !.raised = r.raised, !.result = r.result]
            /\ UNCHANGED tagged
    /\ UNCHANGED <<deco, calls, conc>>

DoGetFinalValue ==
    /\ op.name = "idle"
    /\ \E name \in SetKeys \ {"nosuch"}, dicts \in SeqsOf(SourceDicts, 0, MaxDicts),
       fparams \in FParams :
        LET r == GetFinalValue(tagged, name, dicts, fparams)
        IN  /\ op' = [NoOp EXCEPT !.name = "resolve", !.key = name, !.dicts = dicts,
                                  !.fparams = fparams, !.raised = r.raised,
                                  !.result = r.result]
            /\ UNCHANGED tagged
    /\ UNCHANGED <<deco, calls, conc>>

DoUpdate ==
    /\ op.name = "idle"
    /\ \E dicts \in SeqsOf(UpdateDicts, 1, MaxDicts) :
        LET r == Update(tagged, dicts)
        IN  /\ tagged' = r.tagged
            /\ op' = [NoOp EXCEPT !.name = "update", !.dicts = dicts, !.raised = r.raised]
    /\ UNCHANGED <<deco, calls, conc>>

\* the caller takes the outcome of the operation
TakeOutcome ==
    /\ op.name # "idle"
    /\ op' = NoOp
    /\ UNCHANGED tagged
    /\ UNCHANGED <<deco, calls, conc>>

NextSettings == DoSetItem \/ DoGetItem \/ DoGetFinalValue \/ DoUpdate \/ TakeOutcome

SettingsSpec == InitSettings /\ [][NextSettings]_vars

(***************************************************************************)
(* update given a key that is not registered                               *)
(***************************************************************************)
\* dictionaries of one or two items over two mutable settings and a key
\* that is no setting, in every order
PartialDicts ==
    LET pool == << [k |-> "args_sep", v |-> StrV(<<";">>)],
                   [k |-> "loglevel", v |-> IntV(1)],
                   [k |-> "nosuch", v |-> IntV(1)] >>
    IN  { << pool[i] >> : i \in 1..3 }
        \cup { << pool[i], pool[j] >> : <<i, j>> \in { p \in (1..3) \X (1..3) : p[1] # p[2] } }

DoPartialUpdate ==
    /\ op.name = "idle"
    /\ \E dicts \in SeqsOf(PartialDicts, 1, MaxDicts) :
        LET r == Update(tagged, dicts)
        IN  /\ tagged' = r.tagged
            /\ op' = [NoOp EXCEPT !.name = "update", !.dicts = dicts, !.raised = r.raised]
    /\ UNCHANGED <<deco, calls, conc>>

PartialNext == DoPartialUpdate \/ TakeOutcome

PartialSpec == InitSettings /\ [][PartialNext]_vars

(***************************************************************************)
(* DecoSettingsMapping.as_OrderedDict / as_dict, and a snapshot restored   *)
(***************************************************************************)
\* od[k] = v[1] for every (k, v) of the tagged values: the second component
\* of the pair, without the marker
as_OrderedDict(tv) == [i \in 1..Len(tv) |-> [k |-> tv[i].k, v |-> tv[i].val]]

\* snapshot = settings.as_OrderedDict(); settings[key] = value for a mutable
\* setting; settings.update(snapshot)
SnapshotRestore ==
    /\ op.name = "idle"
    /\ \E key \in {"args_sep", "loglevel"}, value \in SetValues :
        LET snapshot == as_OrderedDict(tagged)
            changed == SetItem(tagged, key, value, FALSE)
            r == Update(changed.tagged, <<snapshot>>)
        IN  /\ changed.raised = "none"
            /\ tagged' = r.tagged
            /\ op' = [NoOp EXCEPT !.name = "restore", !.key = key, !.value = value,
                                  !.dicts = <<snapshot>>, !.raised = r.raised]
    /\ UNCHANGED <<deco, calls, conc>>

SnapshotNext == DoSetItem \/ SnapshotRestore \/ TakeOutcome

SnapshotSpec == InitSettings /\ [][SnapshotNext]_vars

(***************************************************************************)
(* The decorator: _deco_base / log_calls around one function               *)
(*     def f(kwargs): f takes keyword arguments only, as ** kwargs         *)
(* whose n-th invocation returns n.  f may call itself (through its        *)
(* wrapper), call clear_history and write settings while it runs.          *)
(***************************************************************************)
\* _deco_base.INDENT
INDENT == 4

\* how many times the wrapper is invoked, and how deep the calls nest
MaxCalls == 3

MaxDepth == 2

\* the largest max_history given to the decorator or to clear_history
MaxHistory == 2

\* what one call measures: context['elapsed_secs'] and context['CPU_secs']
WallSecs == 2

CPUSecs == 1

f_name == "f"

\* inspect.signature(f).parameters
f_params == << [k |-> <<"k", "w", "a", "r", "g", "s">>, has_default |-> FALSE, default |-> NoneV] >>

\* post-call handlers without the one of record_history
PostCallHandlersNoHistory == <<"log_retval", "log_elapsed", "log_exit">>

\* the settings whose DecoSetting class defines pre_call_handler / post_call_handler,
\* in registration order
pre_call_handlers == <<"enabled", "log_args">>

post_call_handlers == <<"log_retval", "log_elapsed", "log_exit", "record_history">>

\* a str as text
RECURSIVE Text(_)
Text(chars) == IF chars = <<>> THEN "" ELSE Head(chars) \o Text(Tail(chars))

\* a resolution that never looks at the keywords of the call
FinalValueOfNoCall(tv, setting_name, kwargs) ==
    GetFinalValue(tv, setting_name, <<>>, f_params).result

\* _get_final_value(setting_name) of the wrapper: kwargs and self.f_params
FinalValue(tv, setting_name, kwargs) ==
    GetFinalValue(tv, setting_name, <<kwargs>>, f_params).result

BypassNever(enabled) == FALSE

\* if _enabled < 0: the call is bypassed
Bypass(enabled) == enabled.n < 0

AddCallAlwaysLogged(counters, logged) ==
    [total |-> counters.total + 1, logged |-> counters.logged + 1]

\* _deco_base._add_call, on the pair of counters
AddCall(counters, logged) ==
    [total |-> counters.total + 1,
     logged |-> IF Truthy(logged) THEN counters.logged + 1 ELSE counters.logged]

\* _deco_base._make_call_history
MakeCallHistory(mh) == [maxlen |-> IF mh > 0 THEN mh ELSE 0, items |-> <<>>]

DequeAppendDropsNewest(dq, x) ==
    IF dq.maxlen > 0 /\ Len(dq.items) = dq.maxlen
    THEN dq
    ELSE [dq EXCEPT !.items = Append(dq.items, x)]

\* deque.append: a full bounded deque drops its oldest item
DequeAppend(dq, x) ==
    IF dq.maxlen > 0 /\ Len(dq.items) = dq.maxlen
    THEN [dq EXCEPT !.items = Append(Tail(dq.items), x)]
    ELSE [dq EXCEPT !.items = Append(dq.items, x)]

\* log_calls.get_logging_fn: the logger if one resolves, else print
GetLoggingFn(tv, kwargs) ==
    IF Truthy(FinalValue(tv, "logger", kwargs)) THEN "logger.log" ELSE "print"

\* ' [%d]' % _active_call_number
CallNumberStr(n) == " [" \o ToString(n) \o "]"

\* a walk that goes on past an enabled decorated caller, down to <module>
RECURSIVE ChainFromWhole(_, _, _, _, _)
ChainFromWhole(stack, prefix, i, call_list, prev_indent_level) ==
    IF i = 0
    THEN [call_list |-> Append(call_list, "<module>"),
          prev_indent_level |-> prev_indent_level]
    ELSE ChainFromWhole(stack, prefix, i - 1,
                        Append(call_list, stack[i].prefixed_fname), prev_indent_level)

\* a walk that ends at the first decorated caller with its bookkeeping done,
\* enabled or not
RECURSIVE ChainFromToDecorated(_, _, _, _, _)
ChainFromToDecorated(stack, prefix, i, call_list, prev_indent_level) ==
    IF i = 0
    THEN [call_list |-> SubSeq(Append(call_list, "<module>"), 1, 1),
          prev_indent_level |-> prev_indent_level]
    ELSE LET fr == stack[i]
         IN  IF ~fr.items
             THEN ChainFromToDecorated(stack, prefix, i - 1,
                                       Append(call_list, prefix \o f_name),
                                       prev_indent_level)
             ELSE [call_list |->
                      Append(call_list,
                             fr.prefixed_fname \o
                                (IF Truthy(fr.enabled) /\ Truthy(fr.log_call_numbers)
                                 THEN CallNumberStr(fr.active_call_number) ELSE "")),
                   prev_indent_level |->
                      IF prev_indent_level < 0 THEN fr.extra_indent_level
                      ELSE prev_indent_level]

\* _deco_base.call_chain_to_next_log_calls_fn, for a call made by the f of
\* activation i (0: made by <module>): the names from the caller up to the
\* first enabled decorated function, and the indent level of the nearest one
RECURSIVE ChainFrom(_, _, _, _, _)
ChainFrom(stack, prefix, i, call_list, prev_indent_level) ==
    IF i = 0
    THEN [call_list |-> SubSeq(Append(call_list, "<module>"), 1, 1),
          prev_indent_level |-> prev_indent_level]
    ELSE LET fr == stack[i]
         IN  IF ~fr.items
             THEN \* bypassed: the name stamped on f at decoration
                  ChainFrom(stack, prefix, i - 1,
                            Append(call_list, prefix \o f_name), prev_indent_level)
             ELSE LET name == fr.prefixed_fname \o
                                (IF Truthy(fr.enabled) /\ Truthy(fr.log_call_numbers)
                                 THEN CallNumberStr(fr.active_call_number) ELSE "")
                      prev == IF prev_indent_level < 0 THEN fr.extra_indent_level
                              ELSE prev_indent_level
                  IN  IF Truthy(fr.enabled)
                      THEN [call_list |-> Append(call_list, name), prev_indent_level |-> prev]
                      ELSE ChainFrom(stack, prefix, i - 1, Append(call_list, name), prev)

\* a walk that finds no decorated caller
CallChainOfModule(stack, prefix) ==
    [call_list |-> <<"<module>">>, prev_indent_level |-> -1]

\* a walk that starts from indent level 0
CallChainFromLevelZero(stack, prefix) ==
    ChainFrom(stack, prefix, Len(stack), <<>>, 0)

call_chain_to_next_log_calls_fn(stack, prefix) ==
    ChainFrom(stack, prefix, Len(stack), <<>>, -1)

RECURSIVE Reversed(_)
Reversed(seq) == IF seq = <<>> THEN <<>> ELSE Append(Reversed(Tail(seq)), Head(seq))

\* a loop that visits the handlers last to first
HandlersRunReversed(tv, kwargs, names) ==
    Reversed(SelectSeq(names, LAMBDA n : Truthy(FinalValue(tv, n, kwargs))))

\* the handlers of names that run: those whose setting resolves truthy
HandlersRun(tv, kwargs, names) ==
    SelectSeq(names, LAMBDA n : Truthy(FinalValue(tv, n, kwargs)))

\* _deco_base._add_to_history: the record appended for a call (the fields that
\* hold the arguments are left out: f takes none that the decorator reads back)
CallRecord(call_num, kwargs, retval, prefixed_func_name, caller_chain) ==
    [call_num |-> call_num, retval |-> retval,
     elapsed_secs |-> WallSecs, CPU_secs |-> CPUSecs,
     prefixed_func_name |-> prefixed_func_name, caller_chain |-> caller_chain]

\* the number _add_to_history writes into the record
RecordCallNum(logged_now, fr) == logged_now

\* a wrapper that drops the value
WrapperReturnsNothing(fr, retval) == 0

\* what the wrapper returns, given what f returned
WrapperReturn(fr, retval) == retval

\* the message a handler returns for a call of f ("" for None): the
\* record_history handler returns None
HandlerMsg(name) ==
    CASE name = "enabled" -> "<== called by"
      [] name = "log_args" -> "arguments:"
      [] name = "log_retval" -> "return value:"
      [] name = "log_elapsed" -> "elapsed time:"
      [] name = "log_exit" -> "==> returning to"
      [] OTHER -> ""

\* msg = info.pre_call_handler(context); if msg: pre_msgs.append(msg)
RECURSIVE Msgs(_)
Msgs(handlers) ==
    IF handlers = <<>> THEN <<>>
    ELSE (IF HandlerMsg(Head(handlers)) # "" THEN <<HandlerMsg(Head(handlers))>> ELSE <<>>)
         \o Msgs(Tail(handlers))

\* if logging_fn: for msg in msgs: self._log_message(msg, extra_indent_level=0)
Written(msgs, logging_fn) == IF logging_fn # "" THEN msgs ELSE <<>>

\* what an active call does, in order, up to and including its call of f,
\* and from there to its return
ActiveEntrySteps == <<"pre_call_handlers", "write_pre_msgs", "f">>

ActiveExitSteps ==
    <<"add_to_elapsed", "post_call_handlers", "write_post_msgs", "pop", "return">>

\* an activation of the wrapper that is inside f
Frame(id, kwargs, enabled) ==
    [call |-> id, kwargs |-> kwargs, enabled |-> enabled, items |-> FALSE,
     log_call_numbers |-> NoneV, active_call_number |-> 0, extra_indent_level |-> 0,
     prefixed_fname |-> "", call_list |-> <<>>, pre |-> <<>>, pre_msgs |-> <<>>,
     steps |-> <<"f">>, logging_fn |-> "", logged_at_entry |-> 0]

NoReturn ==
    [call |-> 0, enabled |-> NoneV, raised |-> "none", f_raised |-> "none",
     retval |-> 0, f_retval |-> 0,
     pre |-> <<>>, pre_msgs |-> <<>>, post |-> <<>>, post_msgs |-> <<>>,
     steps |-> <<>>, recorded |-> FALSE]

Top(stack) == stack[Len(stack)]

\* a pop that takes the oldest entry
PopOldest(stack) == SubSeq(stack, 2, Len(stack))

Pop(stack) == SubSeq(stack, 1, Len(stack) - 1)

Max(a, b) == IF a > b THEN a ELSE b

\* the decorator's prefix attribute (self.prefix), stamped on f as
\* PREFIXED_NAME: the prefix keyword of __init__.  The decorators here are
\* given a prefix by keyword only and 'prefix' is never written afterwards,
\* so the mapping holds the same characters
DecoPrefix == Text(Entry(tagged, "prefix").val.s)

(***************************************************************************)
(* DecoSettingArgs.pre_call_handler: the arguments message of a call.  The  *)
(* entries 'name=value' of the call are opaque; the message is given as    *)
(* the pieces joined, entries and separators in turn                       *)
(***************************************************************************)
\* sep.join(entries), piece by piece
RECURSIVE Join(_, _)
Join(entries, sep) ==
    IF Len(entries) <= 1 THEN entries
    ELSE <<Head(entries), sep>> \o Join(Tail(entries), sep)

\* a handler that joins with the descriptor's default separator
ArgsHandlerStaticSep(tv, context) ==
    [raised |-> "none",
     result |-> [args |-> Join(context.args_vals, Info("args_sep").default.s),
                 defaults |-> Join(context.defaulted_kwargs, Info("args_sep").default.s)]]

\* the handler: None when f has no parameters; the resolved args_sep,
\* replaced by a newline and two indents when it ends in a newline
\* (args_sep[-1] raises on ''), joins the argument entries and, on a line of
\* their own, the defaulted keyword entries
pre_call_handler(tv, context) ==
    IF context.fparams = <<>>
    THEN [raised |-> "none", result |-> NoneV]
    ELSE LET resolved == GetFinalValue(tv, "args_sep", <<context.kwargs>>,
                                       context.fparams).result.s
         IN  IF resolved = <<>>
             THEN [raised |-> "IndexError", result |-> NoneV]
             ELSE LET args_sep == IF LastChar(resolved) = "\n"
                                  THEN <<"\n">> \o [i \in 1..(2 * INDENT) |-> " "]
                                  ELSE resolved
                  IN  [raised |-> "none",
                       result |->
                          [args |-> IF context.args_vals # <<>>
                                    THEN Join(context.args_vals, args_sep)
                                    ELSE <<"<none>">>,
                           defaults |-> Join(context.defaulted_kwargs, args_sep)]]

\* a call f(...) is logged: its keywords pass a str, '', a str ending in a
\* newline or an int for RefName, or omit it; its argument entries and its
\* defaulted keyword entries are one or two
DoArgsMessage ==
    /\ op.name = "idle"
    /\ Has(tagged, "args_sep")
    /\ \E v \in {NoneV, StrV(<<";">>), StrV(<<>>), StrV(<<";", "\n">>), IntV(5)},
          fparams \in FParams,
          args_vals \in {<<"a=1">>, <<"a=1", "b=2">>},
          defaulted_kwargs \in {<<>>, <<"c=3", "d=4">>} :
        LET kwargs == IF v = NoneV THEN <<>> ELSE << [k |-> RefName, v |-> v] >>
            context == [kwargs |-> kwargs, fparams |-> fparams, args_vals |-> args_vals,
                        defaulted_kwargs |-> defaulted_kwargs]
            r == pre_call_handler(tagged, context)
        IN  op' = [NoOp EXCEPT !.name = "log_args", !.value = context,
                               !.dicts = <<kwargs>>, !.fparams = fparams,
                               !.raised = r.raised, !.result = r.result]
    /\ UNCHANGED tagged
    /\ UNCHANGED <<deco, calls, conc>>

ArgsNext == DoSetItem \/ DoArgsMessage \/ TakeOutcome

ArgsSpec == InitSettings /\ [][ArgsNext]_vars

(***************************************************************************)
(* f_log_calls_wrapper_, from its entry to its call of f                   *)
(***************************************************************************)
CallKwargs ==
    { <<>> } \cup { << [k |-> RefName, v |-> v] >> : v \in {BoolV(TRUE), IntV(-1)} }

\* DecoSettingArgs.pre_call_handler: args_sep[-1] raises IndexError when
\* args_sep resolves to ''
PreHandlerRaises(tv, kwargs) ==
    /\ Truthy(FinalValue(tv, "log_args", kwargs))
    /\ FinalValue(tv, "args_sep", kwargs).s = <<>>

\* lines 894-945 for a call that is not bypassed: the counters, the entry
\* pushed on the logging-state stacks and the locals of the activation
WrapperEntry(id, kwargs, enabled) ==
    LET counters == AddCall([total |-> num_calls_total,
                             logged |-> num_calls_logged], enabled)
        log_call_numbers == FinalValue(tagged, "log_call_numbers", kwargs)
        active_call_number ==
            IF Truthy(log_call_numbers) THEN counters.logged ELSE 0
        chain == call_chain_to_next_log_calls_fn(frames, DecoPrefix)
        do_indent == FinalValue(tagged, "indent", kwargs)
        extra_indent_level ==
            chain.prev_indent_level
            + (IF Truthy(do_indent) /\ Truthy(enabled) THEN 1 ELSE 0)
        prefixed_fname == Text(FinalValue(tagged, "prefix", kwargs).s) \o f_name
        output_fname ==
            prefixed_fname \o (IF Truthy(log_call_numbers)
                               THEN CallNumberStr(active_call_number) ELSE "")
    IN  [counters |-> counters,
         logging_fn |-> GetLoggingFn(tagged, kwargs),
         indent_len |-> Max(extra_indent_level, 0) * INDENT,
         output_fname |-> output_fname,
         frame |-> [Frame(id, kwargs, enabled) EXCEPT
                      !.items = TRUE,
                      !.log_call_numbers = log_call_numbers,
                      !.active_call_number = active_call_number,
                      !.extra_indent_level = extra_indent_level,
                      !.prefixed_fname = prefixed_fname,
                      !.call_list = chain.call_list,
                      !.logging_fn = GetLoggingFn(tagged, kwargs),
                      !.logged_at_entry = counters.logged]]

\* the observer's count of one more invocation
Invoked(enabled) ==
    [since EXCEPT
       !.all = @ + 1,
       !.nonneg = IF enabled.n >= 0 THEN @ + 1 ELSE @,
       !.truthy = IF Truthy(enabled) THEN @ + 1 ELSE @,
       !.on = IF enabled.n >= 0 /\ Truthy(enabled) THEN @ + 1 ELSE @]

\* one invocation f(**kwargs) of the wrapper, up to its call of f
Enter(kwargs) ==
    /\ ncalls < MaxCalls
    /\ op.name = "idle"
    /\  LET id == ncalls + 1
            enabled == FinalValue(tagged, "enabled", kwargs)
        IN  /\ ncalls' = id
            /\ since' = Invoked(enabled)
            /\ returned' = NoReturn
            /\ UNCHANGED <<conc, tagged, op, elapsed_secs_logged, CPU_secs_logged,
                           max_history, call_history>>
            /\ IF Bypass(enabled)
               THEN /\ frames' = Append(frames, Frame(id, kwargs, enabled))
                    /\ UNCHANGED <<num_calls_total, num_calls_logged, logging_fn_stack,
                                   indent_len_stack, output_fname_stack>>
               ELSE LET e == WrapperEntry(id, kwargs, enabled)
                        pre == HandlersRun(tagged, kwargs, pre_call_handlers)
                    IN  /\ Truthy(enabled) => ~PreHandlerRaises(tagged, kwargs)
                        /\ num_calls_total' = e.counters.total
                        /\ num_calls_logged' = e.counters.logged
                        /\ logging_fn_stack' = Append(logging_fn_stack, e.logging_fn)
                        /\ indent_len_stack' = Append(indent_len_stack, e.indent_len)
                        /\ output_fname_stack' = Append(output_fname_stack, e.output_fname)
                        /\ frames' = Append(frames,
                              IF Truthy(enabled)
                              THEN [e.frame EXCEPT
                                      !.pre = pre,
                                      !.pre_msgs = Written(Msgs(pre), e.logging_fn),
                                      !.steps = ActiveEntrySteps]
                              ELSE e.frame)

Call ==
    /\ Len(frames) < MaxDepth
    /\ \E kwargs \in CallKwargs : Enter(kwargs)

(***************************************************************************)
(* f_log_calls_wrapper_, from the return of f to its own return            *)
(***************************************************************************)
\* line 890: the bypassed call returns what f returns
ReturnBypassed ==
    /\ frames # <<>> /\ ~Top(frames).items
    /\ op.name = "idle"
    /\ LET fr == Top(frames)
       IN  returned' = [NoReturn EXCEPT !.call = fr.call, !.enabled = fr.enabled,
                                        !.f_retval = fr.call,
                                        !.retval = WrapperReturn(fr, fr.call),
                                        !.steps = fr.steps \o <<"return">>]
    /\ frames' = Pop(frames)
    /\ UNCHANGED <<conc, tagged, op, deco, ncalls, since>>

\* a disabled call that returns without the pop
ReturnDisabledNoPop ==
    /\ frames # <<>> /\ Top(frames).items /\ ~Truthy(Top(frames).enabled)
    /\ op.name = "idle"
    /\ LET fr == Top(frames)
       IN  returned' = [NoReturn EXCEPT !.call = fr.call, !.enabled = fr.enabled,
                                        !.f_retval = fr.call, !.retval = fr.call,
                                        !.steps = fr.steps \o <<"return">>]
    /\ frames' = Pop(frames)
    /\ UNCHANGED <<conc, tagged, op, deco, ncalls, since>>

\* lines 949-952: not _enabled
ReturnDisabled ==
    /\ frames # <<>> /\ Top(frames).items /\ ~Truthy(Top(frames).enabled)
    /\ op.name = "idle"
    /\ LET fr == Top(frames)
       IN  returned' = [NoReturn EXCEPT !.call = fr.call, !.enabled = fr.enabled,
                                        !.f_retval = fr.call,
                                        !.retval = WrapperReturn(fr, fr.call),
                                        !.steps = fr.steps \o <<"pop", "return">>]
    /\ frames' = Pop(frames)
    /\ logging_fn_stack' = Pop(logging_fn_stack)
    /\ indent_len_stack' = Pop(indent_len_stack)
    /\ output_fname_stack' = Pop(output_fname_stack)
    /\ UNCHANGED <<conc, tagged, op, num_calls_total, num_calls_logged, elapsed_secs_logged,
                   CPU_secs_logged, max_history, call_history, ncalls, since>>

\* lines 1043-1084: timing, _add_to_elapsed, the post-call handlers, pop, return
ReturnActive ==
    /\ frames # <<>> /\ Top(frames).items /\ Truthy(Top(frames).enabled)
    /\ op.name = "idle"
    /\ LET fr == Top(frames)
           retval == fr.call
           post == HandlersRun(tagged, fr.kwargs, post_call_handlers)
           recorded == \E i \in 1..Len(post) : post[i] = "record_history"
           record == CallRecord(RecordCallNum(num_calls_logged, fr), fr.kwargs, retval,
                                fr.prefixed_fname, fr.call_list)
       IN  /\ elapsed_secs_logged' = elapsed_secs_logged + WallSecs
           /\ CPU_secs_logged' = CPU_secs_logged + CPUSecs
           /\ call_history' = IF recorded THEN DequeAppend(call_history, record)
                              ELSE call_history
           /\ since' = IF recorded
                       THEN [since EXCEPT !.appended = Append(@, record)]
                       ELSE since
           /\ returned' = [NoReturn EXCEPT !.call = fr.call, !.enabled = fr.enabled,
                                           !.f_retval = retval,
                                           !.retval = WrapperReturn(fr, retval),
                                           !.pre = fr.pre, !.pre_msgs = fr.pre_msgs,
                                           !.post = post,
                                           !.post_msgs =
                                               Written(Msgs(post), fr.logging_fn),
                                           !.steps = fr.steps \o ActiveExitSteps,
                                           !.recorded = recorded]
    /\ frames' = Pop(frames)
    /\ logging_fn_stack' = Pop(logging_fn_stack)
    /\ indent_len_stack' = Pop(indent_len_stack)
    /\ output_fname_stack' = Pop(output_fname_stack)
    /\ UNCHANGED <<conc, tagged, op, num_calls_total, num_calls_logged, max_history, ncalls>>

(***************************************************************************)
(* _deco_base.clear_history                                                *)
(***************************************************************************)
\* what has happened since construction or the last clear_history: how many
\* invocations (all; with enabled not negative; with enabled truthy; with enabled
\* truthy and not negative), the records appended, and whether a call was in
\* flight when the history was cleared
NothingSince ==
    [all |-> 0, nonneg |-> 0, truthy |-> 0, on |-> 0, appended |-> <<>>, stale |-> FALSE]

\* a clear_history that keeps the current bound when it is given none
ClearHistoryKeepsBound(n) ==
    /\ op.name = "idle"
    /\ num_calls_logged' = 0
    /\ num_calls_total' = 0
    /\ elapsed_secs_logged' = 0
    /\ CPU_secs_logged' = 0
    /\ max_history' = (IF n = 0 THEN max_history ELSE n)
    /\ call_history' = MakeCallHistory(IF n = 0 THEN max_history ELSE n)
    /\ tagged' = SetItem(tagged, "max_history", IntV(n), TRUE).tagged
    /\ since' = [NothingSince EXCEPT !.stale = (frames # <<>>)]
    /\ UNCHANGED <<conc, op, logging_fn_stack, indent_len_stack, output_fname_stack,
                   frames, returned, ncalls>>

\* clear_history(max_history=n), n an int
ClearHistory(n) ==
    /\ op.name = "idle"
    /\ num_calls_logged' = 0
    /\ num_calls_total' = 0
    /\ elapsed_secs_logged' = 0
    /\ CPU_secs_logged' = 0
    /\ max_history' = n
    /\ call_history' = MakeCallHistory(n)
    /\ tagged' = SetItem(tagged, "max_history", IntV(n), TRUE).tagged
    /\ since' = [NothingSince EXCEPT !.stale = (frames # <<>>)]
    /\ UNCHANGED <<conc, op, logging_fn_stack, indent_len_stack, output_fname_stack,
                   frames, returned, ncalls>>

clear_history == \E n \in {0, MaxHistory} : ClearHistory(n)

(***************************************************************************)
(* Writes to f.log_calls_settings between or during calls                  *)
(***************************************************************************)
SettingWrites ==
    { <<"enabled", IntV(-1)>>, <<"enabled", StrV(<<"a", "=">>)>>,
      <<"record_history", BoolV(FALSE)>> }

WriteSetting ==
    /\ op.name = "idle"
    /\ \E w \in SettingWrites : tagged' = SetItem(tagged, w[1], w[2], FALSE).tagged
    /\ UNCHANGED <<op, deco, calls, conc>>

(***************************************************************************)
(* _deco_base.__init__ / log_calls.__init__                                *)
(***************************************************************************)
\* d.update(e) on plain dictionaries
RECURSIVE DictUpdate(_, _)
DictUpdate(d, e) ==
    IF e = <<>> THEN d ELSE DictUpdate(Store(d, Head(e)), Tail(e))

\* d = {k: od[k].default for k in od}; d['enabled'] = True
DefaultSettings ==
    Store([i \in 1..Len(setting_info_list) |->
              [k |-> setting_info_list[i].name, v |-> setting_info_list[i].default]],
          [k |-> "enabled", v |-> BoolV(TRUE)])

\* the keywords given to log_calls(...)
UsedKeywords ==
    { << [k |-> "record_history", v |-> BoolV(TRUE)], [k |-> "max_history", v |-> IntV(n)] >> :
         n \in {0, MaxHistory} }

\* the decorator constructed with the dict settings and the keywords
\* used_keywords: self.max_history is the max_history keyword or its default
Constructed(settings, used_keywords) ==
    /\ LET d == DictUpdate(DictUpdate(DefaultSettings, settings), used_keywords)
           mh == IF Has(used_keywords, "max_history")
                 THEN Entry(used_keywords, "max_history").v.n ELSE 0
       IN  /\ tagged = NewMapping(d)
           /\ max_history = mh
           /\ call_history = MakeCallHistory(mh)
    /\ op = NoOp
    /\ num_calls_total = 0
    /\ num_calls_logged = 0
    /\ elapsed_secs_logged = 0
    /\ CPU_secs_logged = 0
    /\ logging_fn_stack = <<>>
    /\ indent_len_stack = <<>>
    /\ output_fname_stack = <<>>
    /\ frames = <<>>
    /\ returned = NoReturn
    /\ ncalls = 0
    /\ since = NothingSince
    /\ threads = [t \in Threads |-> NotStarted]
    /\ owner_stack = NoOwners

Init == \E used_keywords \in UsedKeywords : Constructed(<<>>, used_keywords)

Next ==
    \/ Call
    \/ ReturnBypassed
    \/ ReturnDisabled
    \/ ReturnActive
    \/ clear_history
    \/ WriteSetting

Spec == Init /\ [][Next]_vars

(***************************************************************************)
(* The handler pipeline with failures: a decorator whose 'enabled' names a *)
(* keyword of the call, so that each call is bypassed, disabled or active  *)
(* as its caller chooses; handlers that raise; an f that raises.           *)
(***************************************************************************)
\* a loop that goes on after a handler has raised
HandlersDespiteRaise(ran, failing) == ran

\* the handlers a loop has run when the handler of `failing` raises: those up
\* to it, the loop having no try
UpToRaise(ran, failing) ==
    SubSeq(ran, 1, CHOOSE i \in 1..Len(ran) : ran[i] = failing)

\* a pre-call handler raises: the exception leaves the wrapper from line 1024
CallPreRaises ==
    /\ ncalls < MaxCalls
    /\ Len(frames) < MaxDepth
    /\ op.name = "idle"
    /\ \E kwargs \in CallKwargs :
        LET id == ncalls + 1
            enabled == FinalValue(tagged, "enabled", kwargs)
            e == WrapperEntry(id, kwargs, enabled)
            pre == UpToRaise(HandlersRun(tagged, kwargs, pre_call_handlers), "log_args")
        IN  /\ ~Bypass(enabled) /\ Truthy(enabled)
            /\ PreHandlerRaises(tagged, kwargs)
            /\ ncalls' = id
            /\ since' = Invoked(enabled)
            /\ num_calls_total' = e.counters.total
            /\ num_calls_logged' = e.counters.logged
            /\ logging_fn_stack' = Append(logging_fn_stack, e.logging_fn)
            /\ indent_len_stack' = Append(indent_len_stack, e.indent_len)
            /\ output_fname_stack' = Append(output_fname_stack, e.output_fname)
            /\ returned' = [NoReturn EXCEPT !.call = id, !.enabled = enabled,
                                            !.raised = "IndexError",
                                            !.pre = pre,
                                            !.steps = <<"pre_call_handlers">>]
    /\ UNCHANGED <<conc, tagged, op, elapsed_secs_logged, CPU_secs_logged, max_history,
                   call_history, frames>>

\* a wrapper that swallows what f raises
Swallow(exc) == "none"

\* the call of f stands in no try: what f raises leaves the wrapper as it is
Propagate(exc) == exc

\* f raises: nothing in the wrapper catches it (lines 890, 950, 1042)
Raise ==
    /\ frames # <<>>
    /\ op.name = "idle"
    /\ LET fr == Top(frames)
       IN  returned' = [NoReturn EXCEPT !.call = fr.call, !.enabled = fr.enabled,
                                        !.f_raised = "f's exception",
                                        !.raised = Propagate("f's exception"),
                                        !.pre = fr.pre, !.pre_msgs = fr.pre_msgs,
                                        !.steps = fr.steps]
    /\ frames' = Pop(frames)
    /\ UNCHANGED <<conc, tagged, op, deco, ncalls, since>>

\* f returns an object whose __str__ raises and log_retval is on:
\* DecoSettingRetval.post_call_handler raises at str(context['retval'])
ReturnPostRaises ==
    /\ frames # <<>> /\ Top(frames).items /\ Truthy(Top(frames).enabled)
    /\ op.name = "idle"
    /\ Truthy(FinalValue(tagged, "log_retval", Top(frames).kwargs))
    /\ LET fr == Top(frames)
           retval == fr.call
           post == UpToRaise(HandlersRun(tagged, fr.kwargs, post_call_handlers),
                             "log_retval")
           recorded == \E i \in 1..Len(post) : post[i] = "record_history"
           record == CallRecord(RecordCallNum(num_calls_logged, fr), fr.kwargs, retval,
                                fr.prefixed_fname, fr.call_list)
       IN  /\ elapsed_secs_logged' = elapsed_secs_logged + WallSecs
           /\ CPU_secs_logged' = CPU_secs_logged + CPUSecs
           /\ call_history' = IF recorded THEN DequeAppend(call_history, record)
                              ELSE call_history
           /\ since' = IF recorded
                       THEN [since EXCEPT !.appended = Append(@, record)]
                       ELSE since
           /\ returned' = [NoReturn EXCEPT !.call = fr.call, !.enabled = fr.enabled,
                                           !.raised = "__str__'s exception",
                                           !.f_retval = retval,
                                           !.pre = fr.pre, !.pre_msgs = fr.pre_msgs,
                                           !.post = post,
                                           !.steps = fr.steps \o
                                               <<"add_to_elapsed", "post_call_handlers">>,
                                           !.recorded = recorded]
    /\ frames' = Pop(frames)
    /\ UNCHANGED <<conc, tagged, op, num_calls_total, num_calls_logged, max_history, ncalls,
                   logging_fn_stack, indent_len_stack, output_fname_stack>>

\* writes that switch handlers on and off, and the '' that __setitem__ lets
\* through for args_sep
PipelineWrites ==
    { <<"log_args", BoolV(FALSE)>>, <<"log_retval", BoolV(TRUE)>>,
      <<"args_sep", StrV(<<>>)>> }

WritePipelineSetting ==
    /\ op.name = "idle"
    /\ \E w \in PipelineWrites : tagged' = SetItem(tagged, w[1], w[2], FALSE).tagged
    /\ UNCHANGED <<op, deco, calls, conc>>

PipelineKeywords ==
    { << [k |-> "enabled", v |-> StrV(<<"a", "=">>)],
         [k |-> "record_history", v |-> BoolV(TRUE)] >> }

PipelineInit == \E used_keywords \in PipelineKeywords : Constructed(<<>>, used_keywords)

PipelineNext ==
    \/ Call
    \/ ReturnBypassed
    \/ ReturnDisabled
    \/ ReturnActive
    \/ CallPreRaises
    \/ Raise
    \/ ReturnPostRaises
    \/ WritePipelineSetting

PipelineSpec == PipelineInit /\ [][PipelineNext]_vars

(***************************************************************************)
(* Threads calling the decorated function at the same time.  Each thread   *)
(* makes one enabled call of f from outside any decorated function; the    *)
(* decorator takes no lock, so its attributes are read and written one     *)
(* statement at a time, and a statement x += 1 is a read and a later write *)
(***************************************************************************)
\* log_calls(record_history=True, log_call_numbers=True, logger='a=')
ThreadKeywords ==
    { << [k |-> "record_history", v |-> BoolV(TRUE)],
         [k |-> "log_call_numbers", v |-> BoolV(TRUE)],
         [k |-> "logger", v |-> StrV(<<"a", "=">>)] >> }

\* thread 1 calls f(a='L'), naming a logger; the others call f()
ThreadKwargs(t) ==
    IF t = 1 THEN << [k |-> RefName, v |-> StrV(<<"L">>)] >> ELSE <<>>

\* the thread t moves from one place of the wrapper to the next
Goes(t, to) == [threads[t] EXCEPT !.pc = to]

At(t, pc) == threads[t].pc = pc

\* what no thread touches: the settings, the history bound and the
\* single-threaded observer
ThreadFrame == UNCHANGED <<tagged, op, max_history, calls>>

\* _add_call: self._num_calls_total += 1, the read
ReadTotal(t) ==
    /\ At(t, "start")
    /\ threads' = [threads EXCEPT ![t] = [Goes(t, "total_read") EXCEPT
                                            !.total = num_calls_total]]
    /\ ThreadFrame
    /\ UNCHANGED <<deco, owner_stack>>

\* _add_call: self._num_calls_total += 1, the write
WriteTotal(t) ==
    /\ At(t, "total_read")
    /\ num_calls_total' = threads[t].total + 1
    /\ threads' = [threads EXCEPT ![t] = Goes(t, "total_written")]
    /\ ThreadFrame
    /\ UNCHANGED <<num_calls_logged, elapsed_secs_logged, CPU_secs_logged, call_history,
                   logging_fn_stack, indent_len_stack, output_fname_stack, owner_stack>>

\* _add_call: if logged: self._num_calls_logged += 1, the read
ReadLogged(t) ==
    /\ At(t, "total_written")
    /\ threads' = [threads EXCEPT ![t] = [Goes(t, "logged_read") EXCEPT
                                            !.logged = num_calls_logged]]
    /\ ThreadFrame
    /\ UNCHANGED <<deco, owner_stack>>

\* _add_call: self._num_calls_logged += 1, the write
WriteLogged(t) ==
    /\ At(t, "logged_read")
    /\ num_calls_logged' = threads[t].logged + 1
    /\ threads' = [threads EXCEPT ![t] = Goes(t, "logged_written")]
    /\ ThreadFrame
    /\ UNCHANGED <<num_calls_total, elapsed_secs_logged, CPU_secs_logged, call_history,
                   logging_fn_stack, indent_len_stack, output_fname_stack, owner_stack>>

\* lines 896-941: _active_call_number read from the shared counter, then the
\* locals logging_fn, global_indent_len and output_fname.  The caller is not
\* decorated, so the chain is empty and the indent level is the one of a
\* call from outside, as call_chain_to_next_log_calls_fn gives it for no frames
EnterLocals(t) ==
    /\ At(t, "logged_written")
    /\ LET kwargs == ThreadKwargs(t)
           chain == call_chain_to_next_log_calls_fn(<<>>, DecoPrefix)
           extra_indent_level ==
               chain.prev_indent_level
               + (IF Truthy(FinalValue(tagged, "indent", kwargs)) THEN 1 ELSE 0)
           prefixed_fname == Text(FinalValue(tagged, "prefix", kwargs).s) \o f_name
           active_call_number ==
               IF Truthy(FinalValue(tagged, "log_call_numbers", kwargs))
               THEN num_calls_logged ELSE 0
       IN  threads' = [threads EXCEPT ![t] =
              [Goes(t, "entered") EXCEPT
                 !.active_call_number = active_call_number,
                 !.logging_fn = GetLoggingFn(tagged, kwargs),
                 !.indent_len = Max(extra_indent_level, 0) * INDENT,
                 !.output_fname =
                     prefixed_fname
                     \o (IF Truthy(FinalValue(tagged, "log_call_numbers", kwargs))
                         THEN CallNumberStr(active_call_number) ELSE "")]]
    /\ ThreadFrame
    /\ UNCHANGED <<deco, owner_stack>>

\* _logging_state_push: self._logging_fn.append(logging_fn)
PushLoggingFn(t) ==
    /\ At(t, "entered")
    /\ logging_fn_stack' = Append(logging_fn_stack, threads[t].logging_fn)
    /\ owner_stack' = [owner_stack EXCEPT !.logging_fn = Append(@, t)]
    /\ threads' = [threads EXCEPT ![t] = Goes(t, "pushed_logging_fn")]
    /\ ThreadFrame
    /\ UNCHANGED <<num_calls_total, num_calls_logged, elapsed_secs_logged,
                   CPU_secs_logged, call_history, indent_len_stack, output_fname_stack>>

\* _logging_state_push: self._indent_len.append(global_indent_len)
PushIndentLen(t) ==
    /\ At(t, "pushed_logging_fn")
    /\ indent_len_stack' = Append(indent_len_stack, threads[t].indent_len)
    /\ owner_stack' = [owner_stack EXCEPT !.indent_len = Append(@, t)]
    /\ threads' = [threads EXCEPT ![t] = Goes(t, "pushed_indent_len")]
    /\ ThreadFrame
    /\ UNCHANGED <<num_calls_total, num_calls_logged, elapsed_secs_logged,
                   CPU_secs_logged, call_history, logging_fn_stack, output_fname_stack>>

\* _logging_state_push: self._output_fname.append(output_fname)
PushOutputFname(t) ==
    /\ At(t, "pushed_indent_len")
    /\ output_fname_stack' = Append(output_fname_stack, threads[t].output_fname)
    /\ owner_stack' = [owner_stack EXCEPT !.output_fname = Append(@, t)]
    /\ threads' = [threads EXCEPT ![t] = Goes(t, "pushed")]
    /\ ThreadFrame
    /\ UNCHANGED <<num_calls_total, num_calls_logged, elapsed_secs_logged,
                   CPU_secs_logged, call_history, logging_fn_stack, indent_len_stack>>

\* _log_message(msg, extra_indent_level=0): the logging function and the
\* indent it writes with are the last elements of the two stacks; the
\* observer notes whose they were
LogMessage(t) ==
    [logging_fn |-> Top(logging_fn_stack), indent_len |-> Top(indent_len_stack),
     logging_fn_of |-> Top(owner_stack.logging_fn),
     indent_len_of |-> Top(owner_stack.indent_len)]

\* lines 1020-1042: the pre-call handlers, their messages, then f is called
WritePreMsgs(t) ==
    /\ At(t, "pushed")
    /\ LET pre == HandlersRun(tagged, ThreadKwargs(t), pre_call_handlers)
           wrote == Written(Msgs(pre), threads[t].logging_fn) # <<>>
       IN  threads' = [threads EXCEPT ![t] =
              [Goes(t, "in_f") EXCEPT
                 !.used = IF wrote THEN Append(@, LogMessage(t)) ELSE @]]
    /\ ThreadFrame
    /\ UNCHANGED <<deco, owner_stack>>

\* f has returned; _add_to_elapsed: self._elapsed_secs_logged += elapsed_secs, the read
ReadElapsed(t) ==
    /\ At(t, "in_f")
    /\ threads' = [threads EXCEPT ![t] = [Goes(t, "elapsed_read") EXCEPT
                                            !.elapsed_secs = elapsed_secs_logged]]
    /\ ThreadFrame
    /\ UNCHANGED <<deco, owner_stack>>

\* _add_to_elapsed: self._elapsed_secs_logged += elapsed_secs, the write
WriteElapsed(t) ==
    /\ At(t, "elapsed_read")
    /\ elapsed_secs_logged' = threads[t].elapsed_secs + WallSecs
    /\ threads' = [threads EXCEPT ![t] = Goes(t, "elapsed_written")]
    /\ ThreadFrame
    /\ UNCHANGED <<num_calls_total, num_calls_logged, CPU_secs_logged, call_history,
                   logging_fn_stack, indent_len_stack, output_fname_stack, owner_stack>>

\* _add_to_elapsed: self._CPU_secs_logged += CPU_secs, the read
ReadCPU(t) ==
    /\ At(t, "elapsed_written")
    /\ threads' = [threads EXCEPT ![t] = [Goes(t, "CPU_read") EXCEPT
                                            !.CPU_secs = CPU_secs_logged]]
    /\ ThreadFrame
    /\ UNCHANGED <<deco, owner_stack>>

\* _add_to_elapsed: self._CPU_secs_logged += CPU_secs, the write
WriteCPU(t) ==
    /\ At(t, "CPU_read")
    /\ CPU_secs_logged' = threads[t].CPU_secs + CPUSecs
    /\ threads' = [threads EXCEPT ![t] = Goes(t, "CPU_written")]
    /\ ThreadFrame
    /\ UNCHANGED <<num_calls_total, num_calls_logged, elapsed_secs_logged, call_history,
                   logging_fn_stack, indent_len_stack, output_fname_stack, owner_stack>>

\* lines 1057-1063: the post-call handlers; record_history's handler calls
\* _add_to_history, which reads self._num_calls_logged and appends to the deque
PostCallHandlers(t) ==
    /\ At(t, "CPU_written")
    /\ LET post == HandlersRun(tagged, ThreadKwargs(t), post_call_handlers)
           recorded == \E i \in 1..Len(post) : post[i] = "record_history"
           record == CallRecord(num_calls_logged, ThreadKwargs(t), t, f_name, <<>>)
       IN  call_history' = IF recorded THEN DequeAppend(call_history, record)
                           ELSE call_history
    /\ threads' = [threads EXCEPT ![t] = Goes(t, "handled")]
    /\ ThreadFrame
    /\ UNCHANGED <<num_calls_total, num_calls_logged, elapsed_secs_logged,
                   CPU_secs_logged, logging_fn_stack, indent_len_stack,
                   output_fname_stack, owner_stack>>

\* lines 1065-1068: the post-call messages
WritePostMsgs(t) ==
    /\ At(t, "handled")
    /\ LET post == HandlersRun(tagged, ThreadKwargs(t), post_call_handlers)
           wrote == Written(Msgs(post), threads[t].logging_fn) # <<>>
       IN  threads' = [threads EXCEPT ![t] =
              [Goes(t, "post_written") EXCEPT
                 !.used = IF wrote THEN Append(@, LogMessage(t)) ELSE @]]
    /\ ThreadFrame
    /\ UNCHANGED <<deco, owner_stack>>

\* _logging_state_pop: self._logging_fn.pop()
PopLoggingFn(t) ==
    /\ At(t, "post_written")
    /\ logging_fn_stack' = Pop(logging_fn_stack)
    /\ owner_stack' = [owner_stack EXCEPT !.logging_fn = Pop(@)]
    /\ threads' = [threads EXCEPT ![t] =
          [Goes(t, "popped_logging_fn") EXCEPT
             !.popped.logging_fn = Top(owner_stack.logging_fn)]]
    /\ ThreadFrame
    /\ UNCHANGED <<num_calls_total, num_calls_logged, elapsed_secs_logged,
                   CPU_secs_logged, call_history, indent_len_stack, output_fname_stack>>

\* _logging_state_pop: self._indent_len.pop()
PopIndentLen(t) ==
    /\ At(t, "popped_logging_fn")
    /\ indent_len_stack' = Pop(indent_len_stack)
    /\ owner_stack' = [owner_stack EXCEPT !.indent_len = Pop(@)]
    /\ threads' = [threads EXCEPT ![t] =
          [Goes(t, "popped_indent_len") EXCEPT
             !.popped.indent_len = Top(owner_stack.indent_len)]]
    /\ ThreadFrame
    /\ UNCHANGED <<num_calls_total, num_calls_logged, elapsed_secs_logged,
                   CPU_secs_logged, call_history, logging_fn_stack, output_fname_stack>>

\* _logging_state_pop: self._output_fname.pop(); then the wrapper returns
PopOutputFname(t) ==
    /\ At(t, "popped_indent_len")
    /\ output_fname_stack' = Pop(output_fname_stack)
    /\ owner_stack' = [owner_stack EXCEPT !.output_fname = Pop(@)]
    /\ threads' = [threads EXCEPT ![t] =
          [Goes(t, "done") EXCEPT
             !.popped.output_fname = Top(owner_stack.output_fname)]]
    /\ ThreadFrame
    /\ UNCHANGED <<num_calls_total, num_calls_logged, elapsed_secs_logged,
                   CPU_secs_logged, call_history, logging_fn_stack, indent_len_stack>>

ThreadInit == \E used_keywords \in ThreadKeywords : Constructed(<<>>, used_keywords)

ThreadNext ==
    \E t \in Threads :
        \/ ReadTotal(t)
        \/ WriteTotal(t)
        \/ ReadLogged(t)
        \/ WriteLogged(t)
        \/ EnterLocals(t)
        \/ PushLoggingFn(t)
        \/ PushIndentLen(t)
        \/ PushOutputFname(t)
        \/ WritePreMsgs(t)
        \/ ReadElapsed(t)
        \/ WriteElapsed(t)
        \/ ReadCPU(t)
        \/ WriteCPU(t)
        \/ PostCallHandlers(t)
        \/ WritePostMsgs(t)
        \/ PopLoggingFn(t)
        \/ PopIndentLen(t)
        \/ PopOutputFname(t)

ThreadSpec == ThreadInit /\ [][ThreadNext]_vars

(***************************************************************************)
(* Nested calls under an indirect 'enabled': f takes **kwargs and calls    *)
(* itself, each call passing or omitting the keyword a on its own          *)
(***************************************************************************)
\* how deep f calls itself here
ChainDepth == 3

\* f(), f(a=True), f(a=False), f(a=-1), f(a='x')
ChainKwargs ==
    { <<>> } \cup { << [k |-> RefName, v |-> v] >> :
                       v \in {BoolV(TRUE), BoolV(FALSE), IntV(-1), StrV(<<"x">>)} }

\* log_calls(enabled='a=', log_call_numbers=..., prefix=...)
ChainKeywords ==
    { << [k |-> "enabled", v |-> StrV(<<"a", "=">>)],
         [k |-> "log_call_numbers", v |-> BoolV(numbered)],
         [k |-> "prefix", v |-> StrV(prefix)] >> :
         numbered \in BOOLEAN, prefix \in {<<>>, <<"p", ".">>} }

ChainInit == \E used_keywords \in ChainKeywords : Constructed(<<>>, used_keywords)

ChainCall ==
    /\ Len(frames) < ChainDepth
    /\ \E kwargs \in ChainKwargs : Enter(kwargs)

ChainNext ==
    \/ ChainCall
    \/ ReturnBypassed
    \/ ReturnDisabled
    \/ ReturnActive

ChainSpec == ChainInit /\ [][ChainNext]_vars

(***************************************************************************)
(* The history bound: a decorator given max_history by keyword or in the   *)
(* settings dict, enabled calls that are recorded, and clear_history       *)
(***************************************************************************)
\* log_calls(settings=..., record_history=True) with max_history absent, in
\* the settings dict, or given by keyword
HistoryInit ==
    \E settings \in { <<>>, << [k |-> "max_history", v |-> IntV(MaxHistory)] >> },
       used_keywords \in
           { << [k |-> "record_history", v |-> BoolV(TRUE)] >>,
             << [k |-> "record_history", v |-> BoolV(TRUE)],
                [k |-> "max_history", v |-> IntV(1)] >> } :
        Constructed(settings, used_keywords)

\* f() called from outside or by f
HistoryCall ==
    /\ Len(frames) < MaxDepth
    /\ Enter(<<>>)

\* clear_history with a negative, a zero and positive arguments
HistoryClear == \E n \in {-1, 0, 1, MaxHistory} : ClearHistory(n)

HistoryNext ==
    \/ HistoryCall
    \/ ReturnActive
    \/ HistoryClear

HistorySpec == HistoryInit /\ [][HistoryNext]_vars

(***************************************************************************)
(* Nested calls under an indirect 'enabled' and an indirect 'indent'       *)
(***************************************************************************)
\* f(...) with a absent, True, False or -1 and with b absent or True
IndentKwargs ==
    { a \o b : a \in { <<>> } \cup { << [k |-> RefName, v |-> v] >> :
                                        v \in {BoolV(TRUE), BoolV(FALSE), IntV(-1)} },
               b \in { <<>>, << [k |-> <<"b">>, v |-> BoolV(TRUE)] >> } }

\* log_calls(enabled='a=', indent='b=') and log_calls(enabled='a=', indent=True)
IndentInit ==
    \E indent \in {StrV(<<"b", "=">>), BoolV(TRUE)} :
        Constructed(<<>>, << [k |-> "enabled", v |-> StrV(<<"a", "=">>)],
                             [k |-> "indent", v |-> indent] >>)

IndentCall ==
    /\ Len(frames) < ChainDepth
    /\ \E kwargs \in IndentKwargs : Enter(kwargs)

IndentNext ==
    \/ IndentCall
    \/ ReturnBypassed
    \/ ReturnDisabled
    \/ ReturnActive

IndentSpec == IndentInit /\ [][IndentNext]_vars

(***************************************************************************)
(* A call whose f writes one of the decorator's own settings: the whole    *)
(* call, from the entry of the wrapper to its return, on one thread        *)
(***************************************************************************)
\* f.log_calls_settings[key] = value, as the body of f does it
ToggleWrites ==
    { <<key, BoolV(b)>> : key \in {"log_exit", "record_history", "log_retval"},
                          b \in BOOLEAN }

\* f() called from the module with the decorator enabled: the wrapper counts
\* the call and runs the pre-call handlers, f writes a setting and returns,
\* and the wrapper adds the elapsed time, runs the post-call handlers whose
\* setting resolves truthy now, pops and returns.  op keeps, for the
\* observer, how the post-call settings resolved when f was called
CallTogglingItself ==
    /\ ncalls < MaxCalls
    /\ op.name = "idle"
    /\ frames = <<>>
    /\ Truthy(FinalValue(tagged, "enabled", <<>>))
    /\ \E w \in ToggleWrites :
        LET id == ncalls + 1
            enabled == FinalValue(tagged, "enabled", <<>>)
            e == WrapperEntry(id, <<>>, enabled)
            pre == HandlersRun(tagged, <<>>, pre_call_handlers)
            at_call == HandlersRun(tagged, <<>>, post_call_handlers)
            written == SetItem(tagged, w[1], w[2], FALSE).tagged
            post == HandlersRun(written, <<>>, post_call_handlers)
            recorded == \E i \in 1..Len(post) : post[i] = "record_history"
            record == CallRecord(RecordCallNum(e.counters.logged, e.frame), <<>>, id,
                                 e.frame.prefixed_fname, e.frame.call_list)
        IN  /\ ncalls' = id
            /\ num_calls_total' = e.counters.total
            /\ num_calls_logged' = e.counters.logged
            /\ tagged' = written
            /\ elapsed_secs_logged' = elapsed_secs_logged + WallSecs
            /\ CPU_secs_logged' = CPU_secs_logged + CPUSecs
            /\ call_history' = IF recorded THEN DequeAppend(call_history, record)
                               ELSE call_history
            /\ since' = IF recorded
                        THEN [Invoked(enabled) EXCEPT !.appended = Append(@, record)]
                        ELSE Invoked(enabled)
            /\ returned' = [NoReturn EXCEPT
                              !.call = id, !.enabled = enabled,
                              !.f_retval = id, !.retval = WrapperReturn(e.frame, id),
                              !.pre = pre,
                              !.pre_msgs = Written(Msgs(pre), e.logging_fn),
                              !.post = post,
                              !.post_msgs = Written(Msgs(post), e.logging_fn),
                              !.steps = ActiveEntrySteps \o ActiveExitSteps,
                              !.recorded = recorded]
            /\ op' = [NoOp EXCEPT !.name = "call", !.key = w[1], !.value = w[2],
                                  !.result = at_call]
    /\ UNCHANGED <<conc, frames, max_history, logging_fn_stack, indent_len_stack,
                   output_fname_stack>>

ToggleNext == CallTogglingItself \/ TakeOutcome

ToggleSpec == Init /\ [][ToggleNext]_vars

(***************************************************************************)
(* Properties of the decorator                                             *)
(***************************************************************************)
Counters == <<num_calls_total, num_calls_logged>>

LoggingState == <<logging_fn_stack, indent_len_stack, output_fname_stack>>

Entered == Len(frames') = Len(frames) + 1

Left == Len(frames') = Len(frames) - 1

\* C1: a call whose 'enabled' resolves negative changes no counter, runs no
\* pre-call and no post-call handler, pushes nothing on the logging-state
\* stacks, appends no history record and adds nothing to the elapsed totals,
\* on its way in and on its way out, and returns what f returned.
C1_Bypass ==
    [][ /\ (Entered /\ Top(frames').enabled.n < 0) =>
              /\ UNCHANGED <<Counters, LoggingState, call_history,
                             elapsed_secs_logged, CPU_secs_logged>>
              /\ Top(frames').pre = <<>>
        /\ (Left /\ Top(frames).enabled.n < 0) =>
              /\ UNCHANGED <<Counters, LoggingState, call_history,
                             elapsed_secs_logged, CPU_secs_logged>>
              /\ returned'.pre = <<>> /\ returned'.post = <<>>
              /\ ~returned'.recorded
              /\ returned'.retval = Top(frames).call ]_vars

\* a bypassed call has returned, after calls that were counted and recorded
C1_Witness ==
    /\ returned.call > 0 /\ returned.enabled.n < 0
    /\ num_calls_logged > 0 /\ call_history.items # <<>>

\* C2 as stated: once every invocation has returned, num_calls_total is the
\* number of invocations whose 'enabled' resolved not negative and
\* num_calls_logged the number of those whose 'enabled' resolved truthy.
C2_CountersAsStated ==
    frames = <<>> =>
        /\ num_calls_total = since.nonneg
        /\ num_calls_logged = since.truthy

\* C2: once every invocation has returned, num_calls_total is the number of
\* invocations whose 'enabled' resolved not negative and num_calls_logged the
\* number of those whose 'enabled' resolved truthy and not negative (a
\* negative 'enabled' is truthy, and that call is bypassed).
C2_Counters ==
    frames = <<>> =>
        /\ num_calls_total = since.nonneg
        /\ num_calls_logged = since.on

\* bypassed, disabled and logged calls have all been made and have returned
C2_Witness ==
    /\ frames = <<>>
    /\ since.all > since.nonneg
    /\ since.nonneg > since.on
    /\ since.on > 0

Min(a, b) == IF a < b THEN a ELSE b

LastN(seq, n) == SubSeq(seq, Len(seq) - n + 1, Len(seq))

RecordHistoryOn ==
    ~Entry(tagged, "record_history").ind /\ Entry(tagged, "record_history").val = BoolV(TRUE)

\* C3: with max_history = N > 0 the history holds the records of the last
\* min(k, N) of the k calls recorded, in order; with max_history <= 0 it holds
\* them all; and when all the calls made were enabled, have returned and were
\* recorded, num_calls_total = k.
C3_HistoryBound ==
    LET k == Len(since.appended)
        N == max_history
    IN  /\ call_history.items =
              IF N > 0 THEN LastN(since.appended, Min(k, N)) ELSE since.appended
        /\ (frames = <<>> /\ ~since.stale /\ since.all = since.on /\ RecordHistoryOn)
              => num_calls_total = k

\* more enabled calls than the bound have returned: the oldest record is gone
C3_Witness ==
    /\ frames = <<>> /\ ~since.stale /\ since.all = since.on /\ RecordHistoryOn
    /\ max_history > 1
    /\ Len(since.appended) > max_history
    /\ Len(call_history.items) = max_history

\* C4: the record appended for a call carries, as call_num, the logged-call
\* number that call was given when the counter was incremented at its entry.
C4_RecordCallNum ==
    [][ (Left /\ returned'.recorded) =>
            call_history'.items[Len(call_history'.items)].call_num
                = Top(frames).logged_at_entry ]_vars

\* position of a setting in the registry
RegIndex(name) ==
    CHOOSE i \in 1..Len(setting_info_list) : setting_info_list[i].name = name

\* the top activation is an active call
ActiveTop(stack) == stack # <<>> /\ Top(stack).items /\ Truthy(Top(stack).enabled)

\* C14: when an active call reaches f, the pre-call handlers that have run are
\* exactly those of the settings that resolve truthy, in registration order
\* and each once; the messages they returned have been written, in that
\* order, and before f was invoked.
C14_PreCallOrder ==
    [][ (Entered /\ ActiveTop(frames')) =>
          LET fr == Top(frames')
          IN  /\ \A i, j \in 1..Len(fr.pre) :
                    i < j => RegIndex(fr.pre[i]) < RegIndex(fr.pre[j])
              /\ { fr.pre[i] : i \in 1..Len(fr.pre) } =
                    { n \in {"enabled", "log_args"} :
                         Truthy(FinalValue(tagged, n, fr.kwargs)) }
              /\ fr.pre_msgs = [i \in 1..Len(fr.pre) |-> HandlerMsg(fr.pre[i])]
              /\ \A i \in 1..Len(fr.pre_msgs) : fr.pre_msgs[i] # ""
              /\ fr.steps = <<"pre_call_handlers", "write_pre_msgs", "f">> ]_vars

\* an active call is inside f after both pre-call handlers ran and wrote
C14_Witness ==
    /\ ActiveTop(frames)
    /\ Top(frames).pre = <<"enabled", "log_args">>
    /\ Top(frames).pre_msgs = <<"<== called by", "arguments:">>

\* the five steps of an active call
CallSteps == <<"pre_call_handlers", "f", "post_call_handlers", "pop", "return">>

\* C15: an active call in which nothing raises has done, when it returns, the
\* pre-call handlers, the call of f, the post-call handlers, the pop and the
\* return, in this order and each once: the pre-call handlers are those run at
\* entry, the record a post-call handler appends holds f's return value and
\* the elapsed times, each logging-state stack loses its top and nothing
\* else, and the caller gets f's return value.
C15_CallStateMachine ==
    [][ (Left /\ ActiveTop(frames) /\ returned'.raised = "none") =>
          LET fr == Top(frames)
              named(x) == \E i \in 1..Len(CallSteps) : CallSteps[i] = x
          IN  /\ SelectSeq(returned'.steps, named) = CallSteps
              /\ returned'.pre = fr.pre
              /\ returned'.f_retval = fr.call
              /\ returned'.retval = returned'.f_retval
              /\ elapsed_secs_logged' = elapsed_secs_logged + WallSecs
              /\ CPU_secs_logged' = CPU_secs_logged + CPUSecs
              /\ returned'.recorded =>
                    LET rec == call_history'.items[Len(call_history'.items)]
                    IN  /\ rec.retval = returned'.f_retval
                        /\ rec.elapsed_secs = WallSecs /\ rec.CPU_secs = CPUSecs
              /\ logging_fn_stack' = Pop(logging_fn_stack)
              /\ indent_len_stack' = Pop(indent_len_stack)
              /\ output_fname_stack' = Pop(output_fname_stack) ]_vars

\* an active call has returned after two pre-call and three post-call handlers
C15_Witness ==
    /\ returned.call > 0 /\ returned.raised = "none"
    /\ returned.pre = <<"enabled", "log_args">>
    /\ returned.post = <<"log_retval", "log_exit", "record_history">>
    /\ returned.post_msgs = <<"return value:", "==> returning to">>
    /\ returned.recorded
    /\ returned.retval = returned.call

\* C16: when a pre-call handler raises, the caller gets the exception, no
\* handler registered after it has run, nothing was written and f was not
\* invoked (no activation, no elapsed time, no record); when a post-call
\* handler raises, the caller gets the exception and no value, and no handler
\* registered after it has run (no message written, no record appended).
C16_HandlerFailure ==
    [][ /\ (returned'.call # returned.call /\ returned'.raised = "IndexError") =>
              /\ UNCHANGED <<frames, call_history, elapsed_secs_logged, CPU_secs_logged>>
              /\ \A i \in 1..Len(returned'.steps) : returned'.steps[i] # "f"
              /\ returned'.pre # <<>>
              /\ \A i \in 1..Len(returned'.pre) :
                    RegIndex(returned'.pre[i]) <= RegIndex("log_args")
              /\ returned'.pre_msgs = <<>>
              /\ returned'.post = <<>>
              /\ returned'.retval = 0
        /\ (returned'.call # returned.call /\ returned'.raised = "__str__'s exception") =>
              /\ Left
              /\ returned'.post # <<>>
              /\ \A i \in 1..Len(returned'.post) :
                    RegIndex(returned'.post[i]) <= RegIndex("log_retval")
              /\ returned'.post_msgs = <<>>
              /\ ~returned'.recorded /\ UNCHANGED call_history
              /\ returned'.retval = 0 ]_vars

\* the log_retval handler has raised in a call whose log_exit and
\* record_history handlers were due after it
C16_Witness ==
    /\ returned.raised = "__str__'s exception"
    /\ returned.pre = <<"enabled", "log_args">>
    /\ returned.post = <<"log_retval">>
    /\ Truthy(FinalValue(tagged, "log_exit", <<>>))
    /\ Truthy(FinalValue(tagged, "record_history", <<>>))
    /\ call_history.items = <<>>

\* C17: when f raises in an active call, the caller gets that exception and
\* no value, no post-call handler runs and nothing is written, no record is
\* appended, the elapsed totals are unchanged, and the counters keep the
\* increments made at entry.
C17_WrappedFunctionFailure ==
    [][ (Left /\ ActiveTop(frames) /\ returned'.f_raised # "none") =>
          /\ returned'.raised = returned'.f_raised
          /\ returned'.retval = 0
          /\ returned'.post = <<>> /\ returned'.post_msgs = <<>>
          /\ ~returned'.recorded
          /\ UNCHANGED <<call_history, elapsed_secs_logged, CPU_secs_logged, Counters>>
          /\ Top(frames).logged_at_entry >= 1
          /\ num_calls_logged' >= Top(frames).logged_at_entry
          /\ num_calls_total' >= num_calls_logged' ]_vars

\* f has raised in an active call whose record_history and log_exit handlers
\* were due
C17_Witness ==
    /\ returned.f_raised # "none" /\ returned.raised = returned.f_raised
    /\ returned.pre = <<"enabled", "log_args">>
    /\ Truthy(FinalValue(tagged, "record_history", <<>>))
    /\ Truthy(FinalValue(tagged, "log_exit", <<>>))
    /\ num_calls_logged >= 1
    /\ call_history.items = <<>> /\ elapsed_secs_logged = 0

\* the non-bypassed calls in flight
InFlight == { i \in 1..Len(frames) : frames[i].items }

\* C18: whatever way the calls made so far have left the wrapper, by return
\* or by an exception of f or of a handler, each logging-state stack holds
\* one entry for each non-bypassed call still in flight and no other: every
\* call that is over has left the stacks at their pre-call depth.
C18_StackRestored ==
    /\ Len(logging_fn_stack) = Cardinality(InFlight)
    /\ Len(indent_len_stack) = Cardinality(InFlight)
    /\ Len(output_fname_stack) = Cardinality(InFlight)

(***************************************************************************)
(* Properties of the mapping                                               *)
(***************************************************************************)
\* a value satisfies a descriptor: its final type and its allow-falsy rule
Acceptable(val, info) ==
    IsInstance(val, info.final_type) /\ (Truthy(val) \/ info.allow_falsy)

\* the (indirect, value) pair stored under key
Pair(tv, key) == <<Entry(tv, key).ind, Entry(tv, key).val>>

\* C5: setting an immutable key that is already present, without the
\* force-mutable flag, raises the write-once error and leaves the mapping as
\* it was; the first set of an absent immutable key succeeds and stores it.
C5_Immutability ==
    [][ (op'.name = "set" /\ Registered(op'.key) /\ ~Info(op'.key).mutable /\ ~op'.force)
        => IF Has(tagged, op'.key)
           THEN op'.raised = "ValueError" /\ tagged' = tagged
           ELSE op'.raised = "none" /\ Has(tagged', op'.key)
                /\ Entry(tagged', op'.key).val = op'.value ]_vars

C5_Witness ==
    /\ op.name = "set" /\ op.key = "prefix" /\ ~op.force
    /\ op.raised = "ValueError"
    /\ Entry(tagged, "prefix").val # op.value

\* the value update gives last for key k, scanning the mappings in order
RECURSIVE LastGiven(_, _, _)
LastGiven(items, k, sofar) ==
    IF items = <<>> THEN sofar
    ELSE LastGiven(Tail(items), k, IF Head(items).k = k THEN Head(items).v ELSE sofar)

GivenKeys(dicts) == { Flatten(dicts)[i].k : i \in 1..Len(Flatten(dicts)) }

\* C6: an update whose mappings hold registered keys, immutable and mutable,
\* raises nothing, leaves every immutable key as it was (set or unset),
\* stores for every mutable key given what set would store for the value the
\* last mapping gives it, and leaves the keys not given alone.
C6_UpdateSkip ==
    [][ (op'.name = "update" /\ \A k \in GivenKeys(op'.dicts) : Registered(k))
        => LET items == Flatten(op'.dicts)
               given == { items[i].k : i \in 1..Len(items) }
               kept(k) == /\ Has(tagged', k) <=> Has(tagged, k)
                          /\ Has(tagged, k) => Pair(tagged', k) = Pair(tagged, k)
           IN  /\ op'.raised = "none"
               /\ \A k \in given :
                     IF ~Info(k).mutable THEN kept(k)
                     ELSE /\ Has(tagged', k)
                          /\ Pair(tagged', k) =
                                Pair(SetItem(tagged, k, LastGiven(items, k, NoneV), FALSE).tagged, k)
               /\ \A k \in (SetKeys \cup {"enabled", "max_history"}) \ given : kept(k)
      ]_vars

C6_Witness ==
    /\ op.name = "update" /\ op.raised = "none"
    /\ Len(op.dicts) = 2
    /\ {"prefix", "args_sep"} \subseteq GivenKeys(<<op.dicts[1]>>)
    /\ Has(op.dicts[2], "args_sep")
    /\ Entry(op.dicts[1], "args_sep").v # Entry(op.dicts[2], "args_sep").v
    /\ Has(tagged, "prefix") /\ Entry(tagged, "prefix").val # Entry(op.dicts[1], "prefix").v
    /\ Has(tagged, "args_sep")

\* C7: after set(key, name + "=") on a string-typed setting that allows
\* indirection, get(key) returns name + "=" and resolving with a mapping that
\* gives name an acceptable value returns that value; get of a direct entry
\* returns the stored literal.
C7_MarkerRoundTrip ==
    /\ ( /\ op.name = "set" /\ op.raised = "none" /\ Registered(op.key)
         /\ Info(op.key).final_type = "str" /\ Info(op.key).allow_indirect
         /\ op.value.t = "str" /\ op.value.s # <<>>
         /\ LastChar(op.value.s) = KEYWORD_MARKER )
       => /\ GetItem(tagged, op.key) = [result |-> op.value, raised |-> "none"]
          /\ \A v \in SourceValues, fparams \in FParams :
                Acceptable(v, Info(op.key))
                => GetFinalValue(tagged, op.key,
                                 << << [k |-> DropLast(op.value.s), v |-> v] >> >>,
                                 fparams).result = v
    /\ (op.name = "get" /\ op.raised = "none" /\ ~Entry(tagged, op.key).ind)
       => op.result = Entry(tagged, op.key).val

C7_Witness ==
    /\ op.name = "set" /\ op.raised = "none" /\ op.key = "args_sep"
    /\ op.value = StrV(<<"a", "=">>)
    /\ Entry(tagged, "args_sep").ind
    /\ GetItem(tagged, "args_sep").result = StrV(<<"a", "=">>)

\* C8: after a falsy direct value (0, '' or None) is set on a setting with
\* allow_falsy false, resolving the setting yields the descriptor's default.
C8_FalsyFallback ==
    ( /\ op.name = "set" /\ op.raised = "none" /\ Registered(op.key)
      /\ ~Info(op.key).allow_falsy /\ ~Truthy(op.value) )
    => \A dicts \in SeqsOf(SourceDicts, 0, 1), fparams \in FParams :
          GetFinalValue(tagged, op.key, dicts, fparams).result = Info(op.key).default

\* C9: resolving a setting never returns a value that violates the
\* descriptor's final type or allow-falsy rule.  Stated for the settings
\* whose values set validates, those that allow indirection.
C9_ResolvedAcceptable ==
    ( /\ op.name = "resolve" /\ op.raised = "none"
      /\ Info(op.key).allow_indirect )
    => Acceptable(op.result, Info(op.key))

\* the value the precedence rule designates for reference name r
ByPrecedence(r, dicts, fparams, default) ==
    IF \E i \in 1..Len(dicts) : Has(dicts[i], r)
    THEN LET first == CHOOSE i \in 1..Len(dicts) :
                          /\ Has(dicts[i], r)
                          /\ \A j \in 1..(i - 1) : ~Has(dicts[j], r)
         IN  Entry(dicts[first], r).v
    ELSE IF \E j \in 1..Len(fparams) : fparams[j].k = r /\ fparams[j].has_default
    THEN Entry(fparams, r).default
    ELSE default

\* C10: resolving an indirect entry with reference name r takes the value of
\* the first mapping, in the order given, that contains r; else the default
\* that the signature of f declares for r; else the descriptor's default.
\* (The value taken is returned when it is acceptable, the descriptor's
\* default when it is not.)
C10_Precedence ==
    ( /\ op.name = "resolve" /\ op.raised = "none"
      /\ Entry(tagged, op.key).ind )
    => LET info == Info(op.key)
           taken == ByPrecedence(Entry(tagged, op.key).val.s, op.dicts, op.fparams,
                                 info.default)
       IN  op.result = IF Acceptable(taken, info) THEN taken ELSE info.default

C10_Witness ==
    /\ op.name = "resolve" /\ op.raised = "none" /\ op.key = "args_sep"
    /\ Entry(tagged, "args_sep").ind /\ Entry(tagged, "args_sep").val.s = RefName
    /\ Len(op.dicts) = 2
    /\ ~Has(op.dicts[1], RefName) /\ Has(op.dicts[2], RefName)
    /\ is_keyword_param(op.fparams, RefName)
    /\ op.result = Entry(op.dicts[2], RefName).v
    /\ op.result # Entry(op.fparams, RefName).default

\* C11: when an indirect entry is resolved and the value found for its
\* reference name, in the first mapping that holds the name or else in the
\* default the signature declares, is falsy where falsy is disallowed or is
\* not of the final type, the result is the descriptor's default.
C11_NoInvalidThroughIndirection ==
    ( /\ op.name = "resolve" /\ op.raised = "none"
      /\ Entry(tagged, op.key).ind )
    => LET info == Info(op.key)
           r == Entry(tagged, op.key).val.s
           bad(v) == (~Truthy(v) /\ ~info.allow_falsy) \/ ~IsInstance(v, info.final_type)
           passed == \E i \in 1..Len(op.dicts) : Has(op.dicts[i], r)
       IN  /\ \A i \in 1..Len(op.dicts) :
                 ( /\ Has(op.dicts[i], r)
                   /\ \A j \in 1..(i - 1) : ~Has(op.dicts[j], r)
                   /\ bad(Entry(op.dicts[i], r).v) )
                 => op.result = info.default
           /\ ( /\ ~passed
                /\ is_keyword_param(op.fparams, r)
                /\ bad(Entry(op.fparams, r).default) )
              => op.result = info.default

\* args_sep refers to a keyword that the call passes as '': the default ', '
\* comes back
C11_Witness ==
    /\ op.name = "resolve" /\ op.raised = "none" /\ op.key = "args_sep"
    /\ Entry(tagged, "args_sep").ind /\ Entry(tagged, "args_sep").val.s = RefName
    /\ Len(op.dicts) >= 1 /\ Has(op.dicts[1], RefName)
    /\ Entry(op.dicts[1], RefName).v = StrV(<<>>)
    /\ op.result = StrV(<<",", " ">>)

\* C12: set with a key that is not registered raises the no-such-setting
\* error (KeyError) and leaves the tagged values and their order as they
\* were, with the force-mutable flag and without it.
C12_NoSuchSetting ==
    [][ (op'.name = "set" /\ ~Registered(op'.key))
        => op'.raised = "KeyError" /\ tagged' = tagged ]_vars

\* a forced set of an unregistered key on a mapping that holds values
C12_Witness ==
    /\ op.name = "set" /\ op.key = "nosuch" /\ op.force
    /\ op.raised = "KeyError"
    /\ Len(tagged) >= 2 /\ ~Has(tagged, "nosuch")

\* C13: constructing a mapping with an initial-values key that is not
\* registered raises the no-such-setting error at construction.
C13_ConstructionRejectsUnknownKey ==
    ( /\ op.name = "init"
      /\ \E i \in 1..Len(op.dicts[1]) : ~Registered(op.dicts[1][i].k) )
    => op.raised = "KeyError"

(***************************************************************************)
(* Properties of concurrent calls                                          *)
(***************************************************************************)
\* C19: when threads are inside calls of the same decorated function at the
\* same time, the logging function and the indent that a call's messages are
\* written with are the ones that call pushed, and the three elements its
\* exit pops are the ones it pushed, whatever the interleaving
C19_OwnStackEntry ==
    \A t \in Threads :
        /\ \A i \in 1..Len(threads[t].used) :
              /\ threads[t].used[i].logging_fn_of = t
              /\ threads[t].used[i].indent_len_of = t
              /\ threads[t].used[i].logging_fn = threads[t].logging_fn
              /\ threads[t].used[i].indent_len = threads[t].indent_len
        /\ threads[t].popped.logging_fn \in {0, t}
        /\ threads[t].popped.indent_len \in {0, t}
        /\ threads[t].popped.output_fname \in {0, t}

\* C20: once NThreads concurrent enabled calls with record_history on and an
\* unbounded history have all completed, num_calls_total and num_calls_logged
\* are both NThreads and the history holds exactly NThreads records
C20_NoLostUpdates ==
    (\A t \in Threads : threads[t].pc = "done")
    => /\ num_calls_total = NThreads
       /\ num_calls_logged = NThreads
       /\ call_history.maxlen = 0
       /\ Len(call_history.items) = NThreads

(***************************************************************************)
(* Properties of nested calls                                              *)
(***************************************************************************)
\* the name an activation is shown under: the prefix, the name of f, and the
\* number the call was given at its entry when it numbers its calls
DisplayName(fr) ==
    Text(Entry(tagged, "prefix").val.s) \o f_name
    \o (IF Truthy(fr.log_call_numbers)
        THEN " [" \o ToString(fr.logged_at_entry) \o "]" ELSE "")

\* C21: when an enabled call of a decorated function calls a decorated
\* function directly, the caller chain built for the inner call begins with
\* the caller's display name: its prefix and function name, and its call
\* number when it numbers its calls.
C21_CallerChainFirst ==
    [][ (Entered /\ ActiveTop(frames) /\ Top(frames').items) =>
            /\ Top(frames').call_list # <<>>
            /\ Top(frames').call_list[1] = DisplayName(Top(frames)) ]_vars

\* a prefixed, numbered, enabled call is the first name of the chain of the
\* call it made, which is not its first logged call
C21_Witness ==
    /\ Len(frames) >= 2
    /\ ActiveTop(SubSeq(frames, 1, Len(frames) - 1))
    /\ Top(frames).items
    /\ Top(frames).call_list[1] = "p.f [2]"

\* the activation is an active call: not bypassed, 'enabled' truthy
Active(fr) == fr.items /\ Truthy(fr.enabled)

\* the name of an enclosing activation in a chain
NameInChain(fr) ==
    IF Active(fr) THEN DisplayName(fr) ELSE Text(Entry(tagged, "prefix").val.s) \o f_name

C23_DisabledCall ==
    [][ /\ (Entered /\ Top(frames').items /\ ~Truthy(Top(frames').enabled)) =>
              /\ num_calls_total' = num_calls_total + 1
              /\ UNCHANGED <<num_calls_logged, call_history,
                             elapsed_secs_logged, CPU_secs_logged>>
              /\ Pop(logging_fn_stack') = logging_fn_stack
              /\ Pop(indent_len_stack') = indent_len_stack
              /\ Pop(output_fname_stack') = output_fname_stack
              /\ Len(logging_fn_stack') = Len(logging_fn_stack) + 1
              /\ Len(indent_len_stack') = Len(indent_len_stack) + 1
              /\ Len(output_fname_stack') = Len(output_fname_stack) + 1
              /\ Top(frames').pre = <<>> /\ Top(frames').pre_msgs = <<>>
              /\ Top(frames').steps = <<"f">>
        /\ (Left /\ Top(frames).items /\ ~Truthy(Top(frames).enabled)
                 /\ returned'.raised = "none") =>
              /\ UNCHANGED <<Counters, call_history,
                             elapsed_secs_logged, CPU_secs_logged>>
              /\ logging_fn_stack' = Pop(logging_fn_stack)
              /\ indent_len_stack' = Pop(indent_len_stack)
              /\ output_fname_stack' = Pop(output_fname_stack)
              /\ returned'.pre = <<>> /\ returned'.pre_msgs = <<>>
              /\ returned'.post = <<>> /\ returned'.post_msgs = <<>>
              /\ ~returned'.recorded
              /\ returned'.steps = <<"f", "pop", "return">>
              /\ returned'.retval = Top(frames).call ]_vars

\* a disabled call has returned, inside an active call, after an active call
\* that was recorded: only the total counter has counted it
C23_Witness ==
    /\ returned.call > 0 /\ returned.raised = "none"
    /\ returned.enabled.n = 0 /\ ~Truthy(returned.enabled)
    /\ returned.steps = <<"f", "pop", "return">>
    /\ ActiveTop(frames)
    /\ call_history.items # <<>>
    /\ num_calls_total = 3 /\ num_calls_logged = 2

(***************************************************************************)
(* Properties of the history bound                                         *)
(***************************************************************************)
\* C24: clear_history(n) leaves both call counters and both elapsed totals
\* at zero and the history empty, with a buffer bounded by n when n > 0 and
\* unbounded when n <= 0, and leaves n as the direct value of the max_history
\* setting, every other setting as it was: the write of the immutable,
\* already set max_history does not raise.  (self.max_history is int(n).)
C24_ClearHistory ==
    [][ (ncalls' = ncalls /\ frames' = frames) =>
            /\ num_calls_total' = 0 /\ num_calls_logged' = 0
            /\ elapsed_secs_logged' = 0 /\ CPU_secs_logged' = 0
            /\ call_history'.items = <<>>
            /\ call_history'.maxlen = IF max_history' > 0 THEN max_history' ELSE 0
            /\ Has(tagged, "max_history") /\ ~Info("max_history").mutable
            /\ Entry(tagged', "max_history") =
                  [k |-> "max_history", ind |-> FALSE, val |-> IntV(max_history')]
            /\ Len(tagged') = Len(tagged)
            /\ \A i \in 1..Len(tagged) :
                  tagged[i].k # "max_history" => tagged'[i] = tagged[i] ]_vars

\* after clear_history(-1) two calls were recorded and both records are kept
C24_Witness ==
    /\ max_history = -1
    /\ Entry(tagged, "max_history").val = IntV(-1)
    /\ call_history.maxlen = 0
    /\ Len(call_history.items) = 2
    /\ num_calls_total = 2

\* C25: the max_history that the settings mapping holds and the bound of the
\* history buffer agree in every state: a positive value is the bound, a
\* value that is zero or negative goes with an unbounded buffer.
C25_MaxHistoryConsistent ==
    LET reported == Entry(tagged, "max_history").val.n
    IN  call_history.maxlen = IF reported > 0 THEN reported ELSE 0

\* C26: an active call that returns normally adds its elapsed wall and CPU
\* time to the cumulative totals once, at its return and not at its entry,
\* whether record_history resolves truthy or falsy; a record of that call is
\* appended exactly when record_history resolves truthy.
C26_ElapsedIndependentOfHistory ==
    [][ /\ Entered => UNCHANGED <<elapsed_secs_logged, CPU_secs_logged, call_history>>
        /\ (Left /\ ActiveTop(frames) /\ returned'.raised = "none") =>
              /\ elapsed_secs_logged' = elapsed_secs_logged + WallSecs
              /\ CPU_secs_logged' = CPU_secs_logged + CPUSecs
              /\ returned'.recorded
                    <=> Truthy(FinalValue(tagged, "record_history", Top(frames).kwargs))
              /\ returned'.recorded =>
                    /\ call_history'.items # <<>>
                    /\ Top(call_history'.items).retval = Top(frames).call
                    /\ Top(call_history'.items).elapsed_secs = WallSecs
                    /\ Top(call_history'.items).CPU_secs = CPUSecs
                    /\ since'.appended = Append(since.appended, Top(call_history'.items))
              /\ ~returned'.recorded => UNCHANGED call_history ]_vars

\* two active calls have returned, the first recorded and the second, made
\* after record_history was switched off, not: both are in the totals
C26_Witness ==
    /\ frames = <<>> /\ ~since.stale
    /\ returned.call = 2 /\ ~returned.recorded /\ Truthy(returned.enabled)
    /\ since.on = 2
    /\ Len(call_history.items) = 1
    /\ elapsed_secs_logged = 2 * WallSecs
    /\ CPU_secs_logged = 2 * CPUSecs

(***************************************************************************)
(* Properties of an indirect 'enabled'                                     *)
(***************************************************************************)
\* what the call passes for the keyword that 'enabled' names: None stands
\* for a call that omits it
Passed(kwargs) == IF Has(kwargs, RefName) THEN Entry(kwargs, RefName).v ELSE NoneV

\* the step is the entry of a call that is logged: counted as logged, with
\* its pre-call handlers run
Logged ==
    /\ Entered
    /\ num_calls_logged' = num_calls_logged + 1
    /\ Top(frames').pre # <<>>

\* C27 as stated: with enabled naming a keyword that f takes through its
\* **kwargs, a call is logged exactly when it passes the keyword with a
\* truthy value, at every depth of nesting.
C27_IndirectEnabledAsStated ==
    [][ Entered =>
          (Logged <=> Truthy(Passed(Top(frames').kwargs))) ]_vars

\* C27: with enabled naming a keyword that f takes through its **kwargs, a
\* call is logged exactly when it passes the keyword with an int (or bool)
\* that is positive; a call that omits the keyword, or passes a falsy value,
\* a negative int (truthy, but the call is bypassed) or a value that is not
\* an int (replaced by the default False), is not logged; and a call made by
\* f itself is decided in the same way by the keyword it passes.
C27_IndirectEnabled ==
    [][ Entered =>
          (Logged <=> (/\ Passed(Top(frames').kwargs).t \in {"int", "bool"}
                       /\ Passed(Top(frames').kwargs).n > 0)) ]_vars

\* after a call that was not logged, a logged call is inside a logged call,
\* both passing a=True
C27_Witness ==
    /\ Len(frames) = 2
    /\ Active(frames[1]) /\ Active(frames[2])
    /\ Passed(frames[1].kwargs) = BoolV(TRUE)
    /\ Passed(frames[2].kwargs) = BoolV(TRUE)
    /\ ncalls = 3 /\ num_calls_logged = 2

(***************************************************************************)
(* Properties of snapshots                                                 *)
(***************************************************************************)
\* C28: after a snapshot is taken with as_OrderedDict (as_dict is a dict of
\* it), mutable settings are changed and update(snapshot) is called, every
\* mutable setting has the tagged value it had when the snapshot was taken,
\* the same kind (direct or indirect) and the same value, and update has
\* raised nothing although the snapshot holds the immutable keys too.
C28_SnapshotRestore ==
    [][ (/\ op'.name = "restore"
         /\ \E i \in 1..Len(op'.dicts[1]) : ~Info(op'.dicts[1][i].k).mutable) =>
            /\ op'.raised = "none"
            /\ \A i \in 1..Len(tagged) :
                  Info(tagged[i].k).mutable => Entry(tagged', tagged[i].k) = tagged[i] ]_vars

(***************************************************************************)
(* Properties of the arguments message                                     *)
(***************************************************************************)
\* args_sep is indirect and names the keyword RefName
ArgsSepIndirect ==
    /\ Has(tagged, "args_sep")
    /\ Entry(tagged, "args_sep").ind
    /\ Entry(tagged, "args_sep").val.s = RefName

\* what the call gives for the separator: the value it passes, else the
\* default f declares for the keyword, else the descriptor default
GivenSep(kwargs, fparams) ==
    IF Has(kwargs, RefName) THEN Entry(kwargs, RefName).v
    ELSE IF is_keyword_param(fparams, RefName) THEN Entry(fparams, RefName).default
    ELSE Info("args_sep").default

C30_NoIndirectVerbatim ==
    /\ (op.name = "set" /\ Registered(op.key) /\ ~Info(op.key).allow_indirect
        /\ op.raised = "none") =>
          Entry(tagged, op.key) = [k |-> op.key, ind |-> FALSE, val |-> op.value]
    /\ \A key \in {"prefix", "max_history"}, value \in SetValues, force \in BOOLEAN :
          LET r == SetItem(tagged, key, value, force)
          IN  /\ ~Info(key).allow_indirect
              /\ r.raised = "none" =>
                    Entry(r.tagged, key) = [k |-> key, ind |-> FALSE, val |-> value]
              /\ r.raised = "none" <=> (force \/ ~Has(tagged, key))

\* prefix was set to 'a=' and the mapping holds the direct entry 'a='
C30_Witness ==
    /\ op.name = "set" /\ op.key = "prefix" /\ op.raised = "none"
    /\ op.value = StrV(<<"a", "=">>)
    /\ Entry(tagged, "prefix") = [k |-> "prefix", ind |-> FALSE, val |-> StrV(<<"a", "=">>)]

(***************************************************************************)
(* Properties of the classification of str values                          *)
(***************************************************************************)
\* C31: a non-empty str set on a setting that allows indirection is stored
\* indirect, less one trailing '=' if it has one, when the final type is not
\* str; when the final type is str it is stored indirect, less the marker,
\* if and only if it ends with '=', and as a direct literal otherwise.  It
\* holds of the set just made and of every such set the mapping could be
\* given, a str with two trailing markers included.
C31_StrClassification ==
    LET stored(key, chars) ==
            [k |-> key,
             ind |-> Info(key).final_type # "str" \/ chars[Len(chars)] = "=",
             val |-> StrV(IF chars[Len(chars)] = "="
                          THEN SubSeq(chars, 1, Len(chars) - 1) ELSE chars)]
    IN  /\ (/\ op.name = "set" /\ op.raised = "none" /\ Registered(op.key)
            /\ Info(op.key).allow_indirect
            /\ op.value.t = "str" /\ op.value.s # <<>>) =>
              Entry(tagged, op.key) = stored(op.key, op.value.s)
        /\ \A key \in {"args_sep", "loglevel"},
              chars \in {<<"a">>, <<"a", "=">>, <<"a", "=", "=">>, <<"=">>} :
              LET r == SetItem(tagged, key, StrV(chars), FALSE)
              IN  /\ r.raised = "none"
                  /\ Entry(r.tagged, key) = stored(key, chars)

\* loglevel was set to 'a=' and is held as a reference to a, beside an
\* args_sep held as the literal 'a'
C31_Witness ==
    /\ op.name = "set" /\ op.key = "loglevel" /\ op.raised = "none"
    /\ op.value = StrV(<<"a", "=">>)
    /\ Entry(tagged, "loglevel") = [k |-> "loglevel", ind |-> TRUE, val |-> StrV(<<"a">>)]
    /\ Has(tagged, "args_sep")
    /\ Entry(tagged, "args_sep") = [k |-> "args_sep", ind |-> FALSE, val |-> StrV(<<"a">>)]

(***************************************************************************)
(* Properties of the enumeration of a mapping                              *)
(***************************************************************************)
\* C32: iterating the mapping yields the keys that are set, each once, in
\* the order of their first insertion: construction inserts the registered
\* keys it is given in registry order, a set or an update leaves the keys
\* already there where they are, a key set for the first time goes to the
\* end, and items pairs each key, in that order, with what __getitem__
\* returns for it.
C32_EnumerationOrder ==
    /\ [](LET iter == Keys(tagged)
              items == [i \in 1..Len(tagged) |->
                          <<tagged[i].k, GetItem(tagged, tagged[i].k).result>>]
          IN  /\ \A i, j \in 1..Len(tagged) : iter[i] = iter[j] => i = j
              /\ \A i \in 1..Len(tagged) :
                    /\ items[i][1] = iter[i]
                    /\ items[i][2] =
                          IF tagged[i].ind
                          THEN StrV(Append(tagged[i].val.s, "="))
                          ELSE tagged[i].val
              /\ op.name = "init" =>
                    /\ { iter[i] : i \in 1..Len(tagged) } =
                          { k \in { op.dicts[1][n].k : n \in 1..Len(op.dicts[1]) } :
                               Registered(k) }
                    /\ \A i, j \in 1..Len(tagged) :
                          i < j => RegIndex(iter[i]) < RegIndex(iter[j]))
    /\ [][ /\ Len(tagged') >= Len(tagged)
           /\ SubSeq(Keys(tagged'), 1, Len(tagged)) = Keys(tagged)
           /\ (op'.name = "set" =>
                 Keys(tagged') =
                    IF op'.raised = "none" /\ ~Has(tagged, op'.key)
                    THEN Append(Keys(tagged), op'.key)
                    ELSE Keys(tagged)) ]_vars

\* the mapping was constructed from prefix and args_sep, given in that
\* order, and holds args_sep before prefix; args_sep, the first key, was
\* then set again and is still the first
C32_Witness ==
    /\ op.name = "set" /\ op.key = "args_sep" /\ op.raised = "none"
    /\ op.value = StrV(<<"a">>)
    /\ Keys(tagged) = <<"args_sep", "prefix">>
    /\ Entry(tagged, "args_sep").val = StrV(<<"a">>)
    /\ ~Entry(tagged, "args_sep").ind

(***************************************************************************)
(* Properties of the bypass under an indirect 'enabled'                    *)
(***************************************************************************)
\* C33 as stated: an 'enabled' stored as an indirect reference never
\* resolves to a negative value, whatever the call passes for the keyword:
\* no call of a function so decorated is bypassed.
C33_IndirectNeverNegativeAsStated ==
    (Has(tagged, "enabled") /\ Entry(tagged, "enabled").ind) =>
        \A i \in 1..Len(frames) : frames[i].enabled.n >= 0 /\ frames[i].items

\* C33: an 'enabled' stored as an indirect reference to a keyword that f
\* takes through its **kwargs resolves to a negative value, and the call is
\* bypassed, exactly when the call passes a negative int for the keyword; a
\* value that is not an int, and an omitted keyword, resolve to the
\* descriptor default False.
C33_IndirectNegative ==
    (Has(tagged, "enabled") /\ Entry(tagged, "enabled").ind) =>
        \A i \in 1..Len(frames) :
            LET passed == Passed(frames[i].kwargs)
            IN  /\ frames[i].enabled.n < 0 <=> ~frames[i].items
                /\ frames[i].enabled.n < 0 <=>
                      (passed.t \in {"int", "bool"} /\ passed.n < 0)
                /\ passed.t \in {"int", "bool"} => frames[i].enabled = passed
                /\ passed.t \notin {"int", "bool"} => frames[i].enabled = BoolV(FALSE)

\* under enabled='a=', a logged call f(a=True) is inside f and has called
\* f(a=-1), which resolved enabled to -1 and is bypassed
C33_Witness ==
    /\ Entry(tagged, "enabled") = [k |-> "enabled", ind |-> TRUE, val |-> StrV(RefName)]
    /\ Len(frames) = 2
    /\ frames[1].items /\ frames[1].enabled = BoolV(TRUE)
    /\ Passed(frames[2].kwargs) = IntV(-1)
    /\ frames[2].enabled = IntV(-1) /\ ~frames[2].items

(***************************************************************************)
(* Properties of the indentation level                                     *)
(***************************************************************************)
\* C34 as stated: a call with no enclosing decorated call that reached the
\* wrapper's bookkeeping inherits indentation level 0, a call with such
\* calls around it inherits the level of the nearest one; its own level is
\* the inherited level plus one exactly when its indent and its enabled
\* resolve truthy.
C34_IndentLevelAsStated ==
    \A i \in 1..Len(frames) :
        frames[i].items =>
            LET above == { j \in 1..(i - 1) : frames[j].items }
                inherited ==
                    IF above = {} THEN 0
                    ELSE frames[CHOOSE j \in above : \A n \in above : n <= j].extra_indent_level
                bump == /\ Truthy(FinalValue(tagged, "indent", frames[i].kwargs))
                        /\ Truthy(frames[i].enabled)
            IN  frames[i].extra_indent_level = inherited + (IF bump THEN 1 ELSE 0)

\* C34: a call with no enclosing decorated call that reached the wrapper's
\* bookkeeping inherits indentation level -1, a call with such calls around
\* it inherits the level of the nearest one; its own level is the inherited
\* level plus one exactly when its indent and its enabled resolve truthy,
\* and the indent length pushed for its output is INDENT times its level,
\* or 0 when the level is -1: never negative.
C34_IndentLevel ==
    /\ \A i \in 1..Len(frames) :
        frames[i].items =>
            LET above == { j \in 1..(i - 1) : frames[j].items }
                inherited ==
                    IF above = {} THEN -1
                    ELSE frames[CHOOSE j \in above : \A n \in above : n <= j].extra_indent_level
                bump == /\ Truthy(FinalValue(tagged, "indent", frames[i].kwargs))
                        /\ Truthy(frames[i].enabled)
                level == inherited + (IF bump THEN 1 ELSE 0)
            IN  /\ frames[i].extra_indent_level = level
                /\ indent_len_stack[Cardinality(above) + 1] =
                      (IF level < 0 THEN 0 ELSE level * INDENT)
    /\ \A n \in 1..Len(indent_len_stack) : indent_len_stack[n] >= 0

\* f(a=True, b=True) called from the module has level 0 and is not indented;
\* inside it a bypassed f(a=-1) called f(a=True, b=True), which has level 1
\* and is indented by INDENT
C34_Witness ==
    /\ Len(frames) = 3
    /\ frames[1].items /\ frames[1].extra_indent_level = 0
    /\ Truthy(frames[1].enabled)
    /\ Truthy(FinalValue(tagged, "indent", frames[1].kwargs))
    /\ ~frames[2].items
    /\ frames[3].items /\ frames[3].extra_indent_level = 1
    /\ indent_len_stack = <<0, INDENT>>

(***************************************************************************)
(* Properties of the post-call handlers of a call that writes a setting    *)
(***************************************************************************)
\* C35: the post-call handlers that run for an active call are those whose
\* settings resolved truthy when the call was made, before f was invoked: a
\* write that f makes to one of these settings while it executes does not
\* change which post-call handlers run for that call.
C35_TogglesFixedPerCall ==
    op.name = "call" => returned.post = op.result

C37_StackDiscipline ==
    /\ [](LET pos(i) == Cardinality({ j \in InFlight : j <= i })
          IN  /\ Len(logging_fn_stack) = Len(indent_len_stack)
              /\ Len(indent_len_stack) = Len(output_fname_stack)
              /\ Len(output_fname_stack) = Cardinality(InFlight)
              /\ frames = <<>> =>
                    /\ logging_fn_stack = <<>>
                    /\ indent_len_stack = <<>>
                    /\ output_fname_stack = <<>>
              /\ \A i \in InFlight :
                    /\ logging_fn_stack[pos(i)] = frames[i].logging_fn
                    /\ indent_len_stack[pos(i)] =
                          (IF frames[i].extra_indent_level < 0 THEN 0
                           ELSE frames[i].extra_indent_level * INDENT)
                    /\ output_fname_stack[pos(i)] =
                          frames[i].prefixed_fname \o
                             (IF Truthy(frames[i].log_call_numbers)
                              THEN " [" \o ToString(frames[i].active_call_number) \o "]"
                              ELSE ""))
    /\ [][ /\ (Entered /\ Top(frames').items) =>
                /\ SubSeq(logging_fn_stack', 1, Len(logging_fn_stack)) = logging_fn_stack
                /\ SubSeq(indent_len_stack', 1, Len(indent_len_stack)) = indent_len_stack
                /\ SubSeq(output_fname_stack', 1, Len(output_fname_stack)) = output_fname_stack
                /\ Len(logging_fn_stack') = Len(logging_fn_stack) + 1
           /\ (Left /\ Top(frames).items) =>
                /\ frames' = SubSeq(frames, 1, Len(frames) - 1)
                /\ logging_fn_stack' = SubSeq(logging_fn_stack, 1, Len(logging_fn_stack) - 1)
                /\ indent_len_stack' = SubSeq(indent_len_stack, 1, Len(indent_len_stack) - 1)
                /\ output_fname_stack' =
                      SubSeq(output_fname_stack, 1, Len(output_fname_stack) - 1)
           /\ ((Entered /\ ~Top(frames').items) \/ (Left /\ ~Top(frames).items)
               \/ (~Entered /\ ~Left)) => UNCHANGED LoggingState ]_vars

\* three calls are in flight, numbered, the middle one bypassed: two entries
\* on each stack, those of the outermost and of the innermost call
C37_Witness ==
    /\ Len(frames) = 3
    /\ frames[1].items /\ ~frames[2].items /\ frames[3].items
    /\ Truthy(frames[1].enabled) /\ Truthy(frames[3].enabled)
    /\ Len(logging_fn_stack) = 2 /\ Len(indent_len_stack) = 2
    /\ output_fname_stack = <<"f [1]", "f [2]">>

(***************************************************************************)
(* Properties of the counters and the history together                     *)
(***************************************************************************)
\* C38: in every state reached by calls of the decorated function, nested
\* ones included, and clear_history, also while a call is in flight, the
\* history holds at most num_calls_logged records and num_calls_logged is
\* at most num_calls_total.
C38_HistoryWithinCounters ==
    /\ Len(call_history.items) <= num_calls_logged
    /\ num_calls_logged <= num_calls_total

(***************************************************************************)
(* Properties of an update that fails                                      *)
(***************************************************************************)
\* the items update goes through before it meets a key that is not registered
RECURSIVE BeforeUnregistered(_)
BeforeUnregistered(items) ==
    IF items = <<>> \/ ~Registered(Head(items).k) THEN <<>>
    ELSE <<Head(items)>> \o BeforeUnregistered(Tail(items))

\* C39: an update that meets a key that is not registered raises the
\* no-such-setting error at that key; the mutable keys it went through
\* before, mapping after mapping and item after item, hold what set stores
\* for the value given last before the failure; the keys that come only
\* after it, and the key that is not registered, are not written.
C39_UpdateNotAtomic ==
    [][ (/\ op'.name = "update"
         /\ Len(BeforeUnregistered(Flatten(op'.dicts))) < Len(Flatten(op'.dicts)))
        => LET items == Flatten(op'.dicts)
               before == BeforeUnregistered(items)
           IN  /\ op'.raised = "KeyError"
               /\ ~Has(tagged', items[Len(before) + 1].k)
               /\ \A k \in SetKeys \cup {"enabled", "max_history"} :
                     IF \E i \in 1..Len(before) : before[i].k = k /\ Info(k).mutable
                     THEN /\ Has(tagged', k)
                          /\ Pair(tagged', k) =
                                Pair(SetItem(tagged, k, LastGiven(before, k, NoneV), FALSE).tagged, k)
                     ELSE /\ Has(tagged', k) <=> Has(tagged, k)
                          /\ Has(tagged, k) => Pair(tagged', k) = Pair(tagged, k)
      ]_vars

\* update({'args_sep': ';', 'nosuch': 1}, {'loglevel': 1}) on a mapping that
\* holds neither setting: it raised, args_sep is ';' and loglevel is not set
C39_Witness ==
    /\ op.name = "update" /\ op.raised = "KeyError"
    /\ Len(op.dicts) = 2
    /\ Keys(op.dicts[1]) = <<"args_sep", "nosuch">>
    /\ Keys(op.dicts[2]) = <<"loglevel">>
    /\ Has(tagged, "args_sep")
    /\ Entry(tagged, "args_sep").val = StrV(<<";">>)
    /\ ~Has(tagged, "loglevel")
    /\ ~Has(tagged, "nosuch")

(***************************************************************************)
(* Properties of clear_history called without a bound                      *)
(***************************************************************************)
\* C40: clear_history() is clear_history(0): on a decorator whose bound is
\* N > 0 it does not keep N.  The step that leaves 0 as the max_history
\* setting leaves self.max_history at 0 and an empty buffer without bound;
\* and whenever the setting reads 0, self.max_history is 0 and the buffer
\* has no bound.
C40_ClearWithoutBound ==
    /\ [](Entry(tagged, "max_history").val = IntV(0) =>
             max_history = 0 /\ call_history.maxlen = 0)
    /\ [][ (/\ ncalls' = ncalls /\ frames' = frames
            /\ max_history > 0
            /\ Entry(tagged', "max_history").val = IntV(0)) =>
              /\ call_history.maxlen = max_history
              /\ max_history' = 0
              /\ call_history' = [maxlen |-> 0, items |-> <<>>] ]_vars

\* the history was cleared without a bound after the first call, and the
\* two calls made since are both in the history, which reports max_history 0
C40_Witness ==
    /\ ncalls = 3 /\ num_calls_total = 2 /\ frames = <<>>
    /\ Entry(tagged, "max_history").val = IntV(0)
    /\ max_history = 0
    /\ call_history.maxlen = 0
    /\ Len(call_history.items) = 2
====
